---------------------------- MODULE Spec2Model ----------------------------
(***************************************************************************)
(* A model of xdoctest's execution engine (DocTest.run), the stdout        *)
(* capture it uses (CaptureStdout), the got/want checker and the part of   *)
(* the parser that packages labelled lines into statement groups.          *)
(*                                                                         *)
(* Texts are sequences of one-character strings.  A source line holds one  *)
(* top-level statement; a statement is described by what it does when it   *)
(* is executed (its "op"), the directives written on it, and whether its   *)
(* prompt marks it as a continuation (ps2).                                *)
(***************************************************************************)
EXTENDS Integers, Sequences, FiniteSets, TLC

(***************************************************************************)
(* Bounds of the model.                                                    *)
(***************************************************************************)
\* the number of labelled lines of a docsrc
MaxLines == 3

None == "None"

(***************************************************************************)
(* Small helpers on sequences and sets.                                    *)
(***************************************************************************)
Last(s) == s[Len(s)]

Range(s) == {s[i] : i \in 1..Len(s)}

SetMin(S) == CHOOSE x \in S : \A y \in S : x <= y

RECURSIVE sorted(_)
\* python's sorted(set(...)) for a set of integers
sorted(S) ==
    IF S = {} THEN <<>>
    ELSE LET m == SetMin(S) IN <<m>> \o sorted(S \ {m})

\* python's s[a:b] for 0-based a and an exclusive end b
Slice(s, a, b) == SubSeq(s, a + 1, b)

RECURSIVE Flatten(_)
Flatten(ss) == IF ss = <<>> THEN <<>> ELSE Head(ss) \o Flatten(Tail(ss))

(***************************************************************************)
(* checker.py                                                              *)
(***************************************************************************)
ELLIPSIS_MARKER == <<".", ".", ".">>

\* the characters of the model that \W matches; letters, digits and the
\* underscore are word characters
Quotes == {"'", "\""}
NonWordChars == {" ", "\t", "\n", "\r", ".", ",", "<ansi>"} \cup Quotes
IsNonWord(c) == c \in NonWordChars

\* a whole ANSI colour escape sequence is one element of a text
ANSI == "<ansi>"
strip_ansi(text) == SelectSeq(text, LAMBDA c : c # ANSI)

RECURSIVE SubPrefix(_, _, _)
\* re.sub(r"(\W|^)[uU]([rR]?[\'\"])", r'\1\2', text), scanning from position
\* i (1-based); P is the set of prefix letters of the regex
SubPrefix(P, text, i) ==
    LET n == Len(text)
        at(k) == IF k <= n THEN text[k] ELSE "<eos>"
        \* the letter is at position k: how many characters follow it in
        \* the match (0 when there is no match)
        tail(k) == IF at(k) \in P
                   THEN IF at(k + 1) \in Quotes THEN 1
                        ELSE IF at(k + 1) \in {"r", "R"} /\ at(k + 2) \in Quotes
                             THEN 2 ELSE 0
                   ELSE 0
    IN  IF i > n THEN <<>>
        ELSE IF IsNonWord(at(i)) /\ tail(i + 1) > 0
             THEN <<at(i)>> \o SubSeq(text, i + 2, i + 1 + tail(i + 1))
                  \o SubPrefix(P, text, i + 2 + tail(i + 1))
        ELSE IF i = 1 /\ tail(1) > 0
             THEN SubSeq(text, 2, 1 + tail(1)) \o SubPrefix(P, text, 2 + tail(1))
        ELSE <<at(i)>> \o SubPrefix(P, text, i + 1)

unicode_literal_re == {"u", "U"}
bytes_literal_re == {"b", "B"}
remove_prefixes(regex, text) == SubPrefix(regex, text, 1)

RECURSIVE EndsLine(_, _)
\* only blanks and tabs lie between position i and the end of its line
EndsLine(text, i) ==
    IF i > Len(text) THEN TRUE
    ELSE IF text[i] = "\n" THEN TRUE
    ELSE IF text[i] \in {" ", "\t"} THEN EndsLine(text, i + 1)
    ELSE FALSE

\* re.sub(TRAILING_WS, '', text) with TRAILING_WS = r"[ \t]*$", MULTILINE
TRAILING_WS(text) ==
    LET keep == {i \in 1..Len(text) :
                    ~(text[i] \in {" ", "\t"} /\ EndsLine(text, i))}
    IN  [k \in 1..Cardinality(keep) |-> text[sorted(keep)[k]]]

RECURSIVE splitlines(_, _)
\* text.splitlines(True): the lines with their terminators kept; cur is the
\* line being collected
splitlines(text, cur) ==
    IF text = <<>> THEN (IF cur = <<>> THEN <<>> ELSE <<cur>>)
    ELSE LET c == Head(text) IN
         IF c = "\r" /\ Len(text) >= 2 /\ text[2] = "\n"
         THEN <<cur \o <<"\r", "\n">> >> \o splitlines(Tail(Tail(text)), <<>>)
         ELSE IF c \in {"\n", "\r"}
         THEN <<cur \o <<c>> >> \o splitlines(Tail(text), <<>>)
         ELSE splitlines(Tail(text), Append(cur, c))

\* lines that end with only a carriage return are erased
visible_text(lines) == SelectSeq(lines, LAMBDA l : Last(l) # "\r")

Whitespace == {" ", "\t", "\n", "\r"}

RECURSIVE rstrip(_)
rstrip(text) ==
    IF text = <<>> THEN text
    ELSE IF Last(text) \in Whitespace THEN rstrip(SubSeq(text, 1, Len(text) - 1))
    ELSE text

normalize1(text) ==
    LET t1 == strip_ansi(text)
        t2 == remove_prefixes(unicode_literal_re, t1)
        t3 == remove_prefixes(bytes_literal_re, t2)
        t4 == TRAILING_WS(t3)
        t5 == Flatten(visible_text(splitlines(t4, <<>>)))
    IN  rstrip(t5)

\* normalize treats got and want alike
normalize(got, want) == <<normalize1(got), normalize1(want)>>


\* check_output that takes an ellipsis anywhere in the want for a wildcard
check_output_any_ellipsis(got, want) ==
    IF want = <<>> THEN TRUE
    ELSE IF \E k \in 0..(Len(want) - 3) :
                SubSeq(want, k + 1, k + 3) = ELLIPSIS_MARKER THEN TRUE
    ELSE IF got = want THEN TRUE
    ELSE normalize(got, want)[1] = normalize(got, want)[2]

\* check_output without the comparison of the normalized texts
check_output_exact(got, want) ==
    \/ want = <<>>
    \/ want = ELLIPSIS_MARKER
    \/ got = want

check_output(got, want) ==
    IF want = <<>> THEN TRUE
    ELSE IF want = ELLIPSIS_MARKER THEN TRUE
    ELSE IF got = want THEN TRUE
    ELSE normalize(got, want)[1] = normalize(got, want)[2]

(***************************************************************************)
(* Directives and the runtime state (xdoctest.directive).                  *)
(***************************************************************************)
Options == {"SKIP", "IGNORE_WANT"}

Directive(name, positive, inline) ==
    [name |-> name, positive |-> positive, inline |-> inline]

\* RuntimeState(default_state) for the empty default_runtime_state of Config:
\* the block-wide values and the values of the current line only
RuntimeState ==
    [global |-> [o \in Options |-> FALSE],
     inline_keys |-> {},
     inline |-> [o \in Options |-> FALSE]]

\* runstate[key]
GetItem(runstate, key) ==
    IF key \in runstate.inline_keys THEN runstate.inline[key]
    ELSE runstate.global[key]

RECURSIVE ApplyDirectives(_, _)
ApplyDirectives(runstate, directives) ==
    IF directives = <<>> THEN runstate
    ELSE LET d == Head(directives)
             next == IF d.inline
                     THEN [runstate EXCEPT !.inline[d.name] = d.positive,
                                           !.inline_keys = @ \cup {d.name}]
                     ELSE [runstate EXCEPT !.global[d.name] = d.positive]
         IN  ApplyDirectives(next, Tail(directives))

\* runstate.update(directives): the values of the previous line are dropped,
\* then each directive is written to the scope it names
update(runstate, directives) ==
    ApplyDirectives([runstate EXCEPT !.inline = [o \in Options |-> FALSE],
                                     !.inline_keys = {}],
                    directives)

(***************************************************************************)
(* Source statements.  A statement is one source line.                     *)
(*   bind1, bind2   x = 1, x = 2                                           *)
(*   print          print(x)     (a bare expression: a call)               *)
(*   expr           x            (a bare expression)                       *)
(*   raise          assert False                                           *)
(*   exit           raises the cooperative early-exit signal               *)
(*   bad            parses, but does not compile (return outside a def)    *)
(*   comment        a comment on a prompt line of its own                  *)
(***************************************************************************)
Stmt(op, directives, ps2) == [op |-> op, directives |-> directives, ps2 |-> ps2]

NoStmt == Stmt("none", <<>>, FALSE)

\* isinstance(node, ast.Expr)
IsExpr(stmt) == stmt.op \in {"expr", "print"}

\* directive.extract of the text of some source lines
extract(lines) == Flatten([i \in 1..Len(lines) |-> lines[i].directives])

(***************************************************************************)
(* parser.py: grouping labelled lines, packaging chunks into parts.        *)
(***************************************************************************)
TEXT == "text"
DSRC == "dsrc"
WANT == "want"

SrcLine(stmt) == [label |-> DSRC, stmt |-> stmt, text |-> <<>>]
WantLine(text) == [label |-> WANT, stmt |-> NoStmt, text |-> text]
TextLine == [label |-> TEXT, stmt |-> NoStmt, text |-> <<>>]

RECURSIVE groupby(_)
\* itertools.groupby(labeled_lines, label): the runs of equal labels
groupby(labeled) ==
    IF labeled = <<>> THEN <<>>
    ELSE LET rest == groupby(Tail(labeled)) IN
         IF rest # <<>> /\ Head(rest).state = Head(labeled).label
         THEN <<[state |-> Head(rest).state,
                 block |-> <<Head(labeled)>> \o Head(rest).block]>> \o Tail(rest)
         ELSE <<[state |-> Head(labeled).label, block |-> <<Head(labeled)>>]>> \o rest

Chunk(slines, wlines) == [kind |-> "chunk", slines |-> slines, wlines |-> wlines]
TextSegment(block) == [kind |-> "text", slines |-> block, wlines |-> <<>>]

RECURSIVE GroupRuns(_, _, _, _)
\* the loop of _group_labeled_lines; pending says that prev_source is not
\* None.  A want run with no pending source is the 'impossible' assertion.
GroupRuns(runs, pending, prev_source, grouped) ==
    IF runs = <<>>
    THEN IF pending /\ prev_source # <<>>
         THEN Append(grouped, Chunk(prev_source, <<>>))
         ELSE grouped
    ELSE LET r == Head(runs) IN
         IF r.state = TEXT
         THEN GroupRuns(Tail(runs), FALSE, <<>>,
                        Append(IF pending
                               THEN Append(grouped, Chunk(prev_source, <<>>))
                               ELSE grouped,
                               TextSegment(r.block)))
         ELSE IF r.state = WANT
         THEN IF ~pending THEN <<[kind |-> "AssertionError"]>>
              ELSE GroupRuns(Tail(runs), FALSE, <<>>,
                             Append(grouped, Chunk(prev_source, r.block)))
         ELSE GroupRuns(Tail(runs), TRUE, r.block, grouped)

\* a grouping that leaves the text segments out
_group_labeled_lines_no_text(labeled_lines) ==
    SelectSeq(GroupRuns(groupby(labeled_lines), FALSE, <<>>, <<>>),
              LAMBDA g : g.kind # "text")

_group_labeled_lines(labeled_lines) ==
    GroupRuns(groupby(labeled_lines), FALSE, <<>>, <<>>)

\* the statement-start lines as the syntax tree reports them, the lines with
\* a continuation prompt among them
_locate_ps1_linenos_of_tree(source_lines) ==
    LET n == Len(source_lines)
    IN  [ps1_linenos |-> sorted({i \in 0..(n - 1) : TRUE}),
         eval_final |-> n > 0 /\ IsExpr(source_lines[n].stmt)]

\* The statement-start lines of a chunk and whether its final statement is a
\* bare expression.  Every line holds one statement, so the syntax tree
\* reports every line; the lines whose prompt marks a continuation are removed.
_locate_ps1_linenos(source_lines) ==
    LET n == Len(source_lines)
        ps1_linenos == {i \in 0..(n - 1) : TRUE}
        ps2_linenos == {x \in 0..(n - 1) : source_lines[x + 1].stmt.ps2}
    IN  [ps1_linenos |-> sorted(ps1_linenos \ ps2_linenos),
         eval_final |-> n > 0 /\ IsExpr(source_lines[n].stmt)]

\* '\n'.join(want_lines)
JoinLines(lines) ==
    Flatten([i \in 1..Len(lines) |->
                IF i = 1 THEN lines[i].text ELSE <<"\n">> \o lines[i].text])

\* zip(l, l[1:]) as pairs <<s1, s2>>
Pairs(l) == [i \in 1..(Len(l) - 1) |-> <<l[i], l[i + 1]>>]

\* s2 = None, the end of the chunk, in a pair of line numbers
EndOfChunk == -1

\* a break point before every statement, as at an interactive prompt
BreakLinenosEvery(source_lines, ps1) == Range(ps1)

\* break points before the statements that carry directives only
BreakLinenosBefore(source_lines, ps1) ==
    LET n == Len(ps1)
        endof(i) == IF i < n THEN ps1[i + 1] ELSE Len(source_lines)
        dirs(i) == extract([k \in 1..(endof(i) - ps1[i]) |->
                                source_lines[ps1[i] + k].stmt])
    IN  {ps1[i] : i \in {j \in 1..n : dirs(j) # <<>>}}

\* the break points the directives of a chunk force: before every statement
\* that carries directives, and after it when its first directive is inline
BreakLinenos(source_lines, ps1) ==
    LET n == Len(ps1)
        s2of(i) == IF i < n THEN ps1[i + 1] ELSE EndOfChunk
        endof(i) == IF i < n THEN ps1[i + 1] ELSE Len(source_lines)
        dirs(i) == extract([k \in 1..(endof(i) - ps1[i]) |->
                                source_lines[ps1[i] + k].stmt])
    IN  {ps1[i] : i \in {j \in 1..n : dirs(j) # <<>>}}
        \cup {s2of(i) : i \in {j \in 1..n : /\ dirs(j) # <<>>
                                            /\ dirs(j)[1].inline
                                            /\ s2of(j) # EndOfChunk}}

\* ps1_to_directive.get(s1, None), None read as no directives
DirectivesAt(source_lines, ps1, s1) ==
    LET n == Len(ps1)
        endof(i) == IF i < n THEN ps1[i + 1] ELSE Len(source_lines)
        dirs(i) == extract([k \in 1..(endof(i) - ps1[i]) |->
                                source_lines[ps1[i] + k].stmt])
        hit == {i \in 1..n : ps1[i] = s1}
    IN  IF hit = {} THEN <<>> ELSE dirs(CHOOSE i \in hit : TRUE)

\* slice_example that takes the lines from s1 to the end of the chunk
slice_example_to_end(source_lines, ps1, lineno, s1, s2, want_lines, use_eval) ==
    LET exec_lines == [k \in 1..(Len(source_lines) - s1) |->
                          source_lines[s1 + k].stmt]
    IN  [exec_lines |-> exec_lines,
         want |-> JoinLines(want_lines),
         line_offset |-> lineno + s1,
         directives |-> DirectivesAt(source_lines, ps1, s1),
         use_eval |-> use_eval,
         n_exec_lines |-> Len(exec_lines)]

\* slice_example that marks every slice ending in an expression for
\* evaluation, with or without a want
slice_example_eval_any(source_lines, ps1, lineno, s1, s2, want_lines, use_eval) ==
    LET e == IF s2 = EndOfChunk THEN Len(source_lines) ELSE s2
        exec_lines == [k \in 1..(e - s1) |-> source_lines[s1 + k].stmt]
    IN  [exec_lines |-> exec_lines,
         want |-> JoinLines(want_lines),
         line_offset |-> lineno + s1,
         directives |-> DirectivesAt(source_lines, ps1, s1),
         use_eval |-> exec_lines # <<>> /\ IsExpr(Last(exec_lines)),
         n_exec_lines |-> Len(exec_lines)]

\* slice_example(s1, s2, want_lines) followed by the assignment of use_eval;
\* s2 is EndOfChunk or a line number
slice_example(source_lines, ps1, lineno, s1, s2, want_lines, use_eval) ==
    LET e == IF s2 = EndOfChunk THEN Len(source_lines) ELSE s2
        exec_lines == [k \in 1..(e - s1) |-> source_lines[s1 + k].stmt]
    IN  [exec_lines |-> exec_lines,
         want |-> JoinLines(want_lines),
         line_offset |-> lineno + s1,
         directives |-> DirectivesAt(source_lines, ps1, s1),
         use_eval |-> use_eval,
         n_exec_lines |-> Len(exec_lines)]

_package_chunk(simulate_repl, raw_source_lines, raw_want_lines, lineno) ==
    LET loc == _locate_ps1_linenos(raw_source_lines)
        ps1 == loc.ps1_linenos
        eval_final == loc.eval_final
        brk == BreakLinenos(raw_source_lines, ps1)
        ex(s1, s2) == slice_example(raw_source_lines, ps1, lineno, s1, s2,
                                    <<>>, FALSE)
        \* the parts yielded by the first loop and the value of s1 after it
        first ==
            IF simulate_repl
            THEN LET pr == Pairs(ps1) IN
                 [parts |-> [i \in 1..Len(pr) |-> ex(pr[i][1], pr[i][2])],
                  s1 |-> IF pr = <<>> THEN 0 ELSE Last(pr)[2]]
            ELSE IF brk # {}
            THEN LET pr == Pairs(sorted({0} \cup brk)) IN
                 [parts |-> [i \in 1..Len(pr) |-> ex(pr[i][1], pr[i][2])],
                  s1 |-> IF pr = <<>> THEN 0 ELSE Last(pr)[2]]
            ELSE [parts |-> <<>>, s1 |-> 0]
        \* the final expression is split off so that it can be evaluated
        second ==
            IF ~simulate_repl /\ raw_want_lines # <<>> /\ eval_final
                 /\ Last(ps1) # first.s1
            THEN [parts |-> Append(first.parts, ex(first.s1, Last(ps1))),
                  s1 |-> Last(ps1)]
            ELSE first
    IN  Append(second.parts,
               slice_example(raw_source_lines, ps1, lineno, second.s1, EndOfChunk,
                             raw_want_lines,
                             raw_want_lines # <<>> /\ eval_final))

RECURSIVE PackageFromSourceLines(_, _)
\* a running line count that leaves out the want lines of a chunk
PackageFromSourceLines(grouped_lines, lineno) ==
    IF grouped_lines = <<>> THEN <<>>
    ELSE LET chunk == Head(grouped_lines) IN
         IF chunk.kind = "chunk"
         THEN _package_chunk(FALSE, chunk.slines, chunk.wlines, lineno)
              \o PackageFromSourceLines(Tail(grouped_lines),
                                        lineno + Len(chunk.slines))
         ELSE PackageFromSourceLines(Tail(grouped_lines),
                                     lineno + Len(chunk.slines))

RECURSIVE PackageFrom(_, _)
\* the loop of _package_groups, text segments left out of the result as
\* DocTest._parse drops them
PackageFrom(grouped_lines, lineno) ==
    IF grouped_lines = <<>> THEN <<>>
    ELSE LET chunk == Head(grouped_lines) IN
         IF chunk.kind = "chunk"
         THEN _package_chunk(FALSE, chunk.slines, chunk.wlines, lineno)
              \o PackageFrom(Tail(grouped_lines),
                             lineno + Len(chunk.slines) + Len(chunk.wlines))
         ELSE PackageFrom(Tail(grouped_lines), lineno + Len(chunk.slines))

_package_groups(grouped_lines) == PackageFrom(grouped_lines, 0)

\* DoctestParser().parse(docsrc) for a docsrc given as its labelled lines,
\* without the text segments
parse(labeled_lines) == _package_groups(_group_labeled_lines(labeled_lines))

\* _complete_source: the text ends before the statement is balanced
LabelFails(labeled_lines) ==
    /\ labeled_lines # <<>>
    /\ Last(labeled_lines).label = DSRC
    /\ Last(labeled_lines).stmt.op = "open"

\* _locate_ps1_linenos: ast.parse of a chunk raises SyntaxError
PackageFails(labeled_lines) ==
    \E l \in 1..Len(labeled_lines) :
        /\ labeled_lines[l].label = DSRC
        /\ labeled_lines[l].stmt.op = "invalid"

NoError == [type |-> None, string |-> <<>>, info |-> None, orig_ex |-> None]

\* the info dict DocTest._parse passes to parse
Info == "callname, modpath, lineno, fpath"

\* a parse that lets the exception of a step pass unnoticed
ParseRaisesNothing(labeled_lines, info) == NoError

\* the except clause of parse: what it raises, NoError when the three steps
\* complete
ParseRaises(labeled_lines, info) ==
    IF LabelFails(labeled_lines) \/ PackageFails(labeled_lines)
    THEN [type |-> "DoctestParseError", string |-> labeled_lines,
          info |-> info, orig_ex |-> "SyntaxError"]
    ELSE NoError

(***************************************************************************)
(* Compiling and executing a part.                                         *)
(***************************************************************************)
Names == {"x"}
Unbound == "<unbound>"
NOT_EVALED == "NOT_EVALED"

EmptyGlobals == [n \in Names |-> Unbound]

\* str(value) and repr(value) of the values a name can hold and of None
Repr(v) == IF v = None THEN <<"N", "o", "n", "e">> ELSE <<v>>

\* traceback.format_exception_only(...)[-1]: the name of the exception type,
\* written as one letter, and a newline
ExcText(exc) ==
    <<CASE exc = "AssertionError" -> "A"
        [] exc = "NameError" -> "N"
        [] exc = "ExitTestException" -> "X"
        [] OTHER -> "L">>
    \o <<"\n">>

NoCode == [bound |-> FALSE, exec_lines |-> <<>>, mode |-> "exec", part |-> -1]

IsStatement(stmt) == stmt.op # "comment"

\* compile(part.source, mode=mode, ...): ok is FALSE for a SyntaxError
Compile(part, partx) ==
    LET mode == IF part.use_eval THEN "eval" ELSE "exec"
        stmts == SelectSeq(part.exec_lines, IsStatement)
        ok == /\ \A i \in 1..Len(stmts) :
                    stmts[i].op \notin {"bad", "invalid", "open"}
              /\ mode = "eval" => (Len(stmts) = 1 /\ IsExpr(stmts[1]))
    IN  [ok |-> ok,
         code |-> [bound |-> TRUE, exec_lines |-> part.exec_lines,
                   mode |-> mode, part |-> partx]]

\* one statement executed against the namespace g
RunStmt(stmt, g) ==
    LET quiet == [globs |-> g, out |-> <<>>, exc |-> None, value |-> None] IN
    CASE stmt.op = "bind1" -> [quiet EXCEPT !.globs = [g EXCEPT !["x"] = "1"]]
      [] stmt.op = "bind2" -> [quiet EXCEPT !.globs = [g EXCEPT !["x"] = "2"]]
      [] stmt.op = "print" ->
            IF g["x"] = Unbound THEN [quiet EXCEPT !.exc = "NameError"]
            ELSE [quiet EXCEPT !.out = <<g["x"], "\n">>]
      [] stmt.op = "expr" ->
            IF g["x"] = Unbound THEN [quiet EXCEPT !.exc = "NameError"]
            ELSE [quiet EXCEPT !.value = g["x"]]
      [] stmt.op = "raise" -> [quiet EXCEPT !.exc = "AssertionError"]
      [] stmt.op = "exit" -> [quiet EXCEPT !.exc = "ExitTestException"]
      [] OTHER -> quiet

RECURSIVE RunLines(_, _, _, _)
\* the lines of a compiled unit executed in order from line k, until one
\* raises; lineno is the line that raised, done the number of lines completed
RunLines(lines, k, g, out) ==
    IF k > Len(lines)
    THEN [globs |-> g, out |-> out, exc |-> None, value |-> None,
          lineno |-> 0, done |-> Len(lines)]
    ELSE LET r == RunStmt(lines[k], g) IN
         IF r.exc # None
         THEN [globs |-> r.globs, out |-> out \o r.out, exc |-> r.exc,
               value |-> None, lineno |-> k, done |-> k - 1]
         ELSE IF k = Len(lines)
         THEN [globs |-> r.globs, out |-> out \o r.out, exc |-> None,
               value |-> r.value, lineno |-> 0, done |-> k]
         ELSE RunLines(lines, k + 1, r.globs, out \o r.out)

\* the line of run() a traceback names when the frame of run() raised
CompileCallLine == 403
EvalCallLine == 429
ExecCallLine == 431

\* ExecCode whose value is never kept: every unit is run as by exec
ExecCodeNoEval(code, use_eval, test_globals) ==
    IF ~code.bound
    THEN [globs |-> test_globals, out |-> <<>>, exc |-> "UnboundLocalError",
          got_eval |-> NOT_EVALED, done |-> 0,
          lineno |-> IF use_eval THEN EvalCallLine ELSE ExecCallLine]
    ELSE LET r == RunLines(code.exec_lines, 1, test_globals, <<>>) IN
         [globs |-> r.globs, out |-> r.out, exc |-> r.exc, done |-> r.done,
          got_eval |-> NOT_EVALED, lineno |-> r.lineno]

\* ExecCode on a copy of the namespace: the bindings made are lost
ExecCodeCopy(code, use_eval, test_globals) ==
    IF ~code.bound
    THEN [globs |-> test_globals, out |-> <<>>, exc |-> "UnboundLocalError",
          got_eval |-> NOT_EVALED, done |-> 0,
          lineno |-> IF use_eval THEN EvalCallLine ELSE ExecCallLine]
    ELSE LET r == RunLines(code.exec_lines, 1, test_globals, <<>>) IN
         [globs |-> test_globals, out |-> r.out, exc |-> r.exc, done |-> r.done,
          got_eval |-> IF r.exc # None \/ ~use_eval THEN NOT_EVALED
                       ELSE IF code.mode = "eval" THEN r.value ELSE None,
          lineno |-> r.lineno]

\* `got_eval = eval(code, test_globals)` or `exec(code, test_globals)`.
\* code is the local variable of run(): unbound until a compile succeeded.
\* eval of a unit compiled in 'exec' mode returns None.
ExecCode(code, use_eval, test_globals) ==
    IF ~code.bound
    THEN [globs |-> test_globals, out |-> <<>>, exc |-> "UnboundLocalError",
          got_eval |-> NOT_EVALED, done |-> 0,
          lineno |-> IF use_eval THEN EvalCallLine ELSE ExecCallLine]
    ELSE LET r == RunLines(code.exec_lines, 1, test_globals, <<>>) IN
         [globs |-> r.globs, out |-> r.out, exc |-> r.exc, done |-> r.done,
          got_eval |-> IF r.exc # None \/ ~use_eval THEN NOT_EVALED
                       ELSE IF code.mode = "eval" THEN r.value ELSE None,
          lineno |-> r.lineno]

\* checker.check_exception(exc_got, want, runstate): TRUE when the formatted
\* exception matches the want, FALSE when the exception is raised again
check_exception(exc_got, want, runstate) == check_output(exc_got, want)

\* part.check(got_stdout, got_eval, runstate): FALSE stands for the
\* GotWantException it raises.  The captured stdout is compared against the
\* want; the value of an evaluated expression is eligible too.
check(part, got_stdout, got_eval, runstate) ==
    \/ check_output(got_stdout, part.want)
    \/ got_eval # NOT_EVALED /\ check_output(Repr(got_eval), part.want)

(***************************************************************************)
(* util_stream.py: CaptureStdout.                                          *)
(***************************************************************************)
CapHandle == "cap_stdout"

\* CaptureStdout(supress=...) constructed while sys.stdout is stdout
CaptureStdout(stdout) ==
    [enabled |-> TRUE, orig_stdout |-> stdout, cap_stdout |-> CapHandle,
     buffer |-> <<>>, text_is_none |-> TRUE, text |-> <<>>, pos |-> 0, parts |-> <<>>,
     started |-> FALSE]

\* a log_part that reads the buffer from its beginning
log_part_from_start(cap) ==
    [cap EXCEPT !.pos = Len(cap.buffer), !.parts = Append(@, cap.buffer),
                !.text = cap.buffer, !.text_is_none = FALSE]

log_part(cap) ==
    LET text == SubSeq(cap.buffer, cap.pos + 1, Len(cap.buffer)) IN
    [cap EXCEPT !.pos = Len(cap.buffer), !.parts = Append(@, text),
                !.text = text, !.text_is_none = FALSE]

start(cap, stdout) ==
    IF cap.enabled
    THEN [cap |-> [cap EXCEPT !.text = <<>>, !.text_is_none = FALSE,
                              !.started = TRUE],
          stdout |-> cap.cap_stdout]
    ELSE [cap |-> cap, stdout |-> stdout]

\* stop that leaves sys.stdout as it is
stop_keep(cap, stdout) ==
    IF cap.enabled
    THEN [cap |-> [cap EXCEPT !.started = FALSE], stdout |-> stdout]
    ELSE [cap |-> cap, stdout |-> stdout]

stop(cap, stdout) ==
    IF cap.enabled
    THEN [cap |-> [cap EXCEPT !.started = FALSE], stdout |-> cap.orig_stdout]
    ELSE [cap |-> cap, stdout |-> stdout]

\* what is printed while stdout is the capture's stream goes to its buffer
write(cap, stdout, msg) ==
    IF stdout = cap.cap_stdout THEN [cap EXCEPT !.buffer = @ \o msg]
    ELSE cap

__exit__(cap, stdout) ==
    IF cap.enabled THEN stop(log_part(cap), stdout)
    ELSE [cap |-> cap, stdout |-> stdout]

(***************************************************************************)
(* The docsrc of a DocTest, as the labelled lines of its text.             *)
(***************************************************************************)
Statements ==
    {Stmt("bind1", <<>>, FALSE),
     Stmt("bind2", <<>>, FALSE),
     Stmt("print", <<>>, FALSE),
     Stmt("expr", <<>>, FALSE),
     Stmt("expr", <<>>, TRUE),
     Stmt("raise", <<>>, FALSE),
     Stmt("exit", <<>>, FALSE),
     Stmt("bad", <<>>, FALSE),
     Stmt("invalid", <<>>, FALSE),
     Stmt("open", <<>>, FALSE),
     Stmt("raise", <<Directive("SKIP", TRUE, TRUE)>>, FALSE),
     Stmt("print", <<Directive("IGNORE_WANT", TRUE, TRUE)>>, FALSE),
     Stmt("comment", <<Directive("SKIP", TRUE, FALSE)>>, FALSE),
     Stmt("comment", <<Directive("SKIP", FALSE, FALSE)>>, FALSE)}

WantTexts == {<<"1">>, <<"A">>, ELLIPSIS_MARKER}

LineKinds ==
    {SrcLine(st) : st \in Statements}
    \cup {WantLine(w) : w \in WantTexts}
    \cup {TextLine}

\* the label streams _label_docsrc_lines can produce: a want line follows a
\* source or a want line, a continuation line follows a source line; a
\* statement left open (an unclosed bracket) swallows the lines after it, so
\* it is followed by none when the text ends inside it
WellLabelled(lines) ==
    \A i \in 1..Len(lines) :
        /\ lines[i].label = WANT =>
              (i > 1 /\ lines[i - 1].label \in {DSRC, WANT})
        /\ (lines[i].label = DSRC /\ lines[i].stmt.ps2) =>
              (i > 1 /\ lines[i - 1].label = DSRC)
        /\ (lines[i].label = DSRC /\ lines[i].stmt.op = "open") =>
              i = Len(lines)

Docs ==
    UNION {{d \in [1..n -> LineKinds] : WellLabelled(d)} : n \in 0..MaxLines}

(***************************************************************************)
(* The state: one DocTest object, the process-wide stdout and the position *)
(* of run() in its loop.                                                   *)
(***************************************************************************)
VARIABLES
    docsrc,             \* self.docsrc, as labelled lines
    mode,               \* self.mode
    module,             \* self.module: None for a DocTest made without a modpath
    _parts,             \* self._parts; <<>> also stands for None
    exc_info,           \* self.exc_info
    failed_part,        \* self.failed_part, as a part index
    tb_lineno,          \* self.tb_lineno
    logged_evals,       \* self.logged_evals: part index -> value
    logged_stdout,      \* self.logged_stdout: part index -> text
    _unmatched_stdout,  \* self._unmatched_stdout
    skipped_parts,      \* self.skipped_parts, as part indexes
    _runstate,          \* self._runstate
    globs,              \* self.globs
    sys_stdout,         \* sys.stdout
    pc,                 \* "ready", "running" (in the loop) or "post"
    on_error,           \* the argument of the current call of run()
    partx,              \* the loop index of run()
    code,               \* the local variable code of run()
    cap,                \* the CaptureStdout object of run()
    outcome,            \* how the last call of run() ended
    summary,            \* what it returned
    trace,              \* what run() did to each part it reached, in order
    stdout_at_call,     \* sys.stdout when run() was called
    chk,                \* a call of the checker: its arguments and results
    parse_calls,        \* how often this DocTest has called the parser
    parse_exc,          \* the DoctestParseError the last run() raised, if any
    sys_path,           \* sys.path, the module search path
    ctx,                \* a PythonPathContext object
    entries,            \* sys.path as it was at each __enter__ not yet exited
    last_exit,          \* the last __exit__: sys.path before the entry and now
    imp,                \* a call of import_module_from_path
    lab,                \* a call of _label_docsrc_lines and of the grouping
    wk,                 \* a call of _workaround_16806
    caps                \* CaptureStdout objects and the process stdout

vars == <<docsrc, mode, module, _parts, exc_info, failed_part, tb_lineno,
          logged_evals, logged_stdout, _unmatched_stdout, skipped_parts,
          _runstate, globs, sys_stdout, pc, on_error, partx, code, cap,
          outcome, summary, trace, stdout_at_call, chk, parse_calls,
          parse_exc, sys_path, ctx, entries, last_exit, imp, lab, wk, caps>>

\* the state of the module search path and of the objects that change it
pathvars == <<sys_path, ctx, entries, last_exit, imp>>

\* the state that a DocTest object's run() never touches
sidevars == <<chk, pathvars, lab, wk, caps>>

NoPart == -1
NoLine == -1
NoExc == [type |-> None, part |-> NoPart]
EmptyMap == [i \in {} |-> None]
NoSummary == [passed |-> FALSE, has_exc_info |-> FALSE, exc_info |-> NoExc]

\* d[k] = v of a dict
Put(d, k, v) == [i \in DOMAIN d \cup {k} |-> IF i = k THEN v ELSE d[i]]

\* the top-level names of the owning module
ModuleDict == [n \in Names |-> "1"]

\* no call of the checker on its own
NoCheck == [phase |-> "off", got |-> <<>>, want |-> <<>>, result |-> FALSE,
            norm |-> <<<<>>, <<>>>>, renorm |-> <<<<>>, <<>>>>,
            report |-> [kind |-> None, context |-> 0, want |-> <<>>,
                        got |-> <<>>]]

\* the DocTest object after __init__
InitObject ==
    /\ docsrc \in Docs
    /\ mode \in {"pytest", "native"}
    /\ module = None
    /\ _parts = <<>>
    /\ exc_info = NoExc
    /\ failed_part = NoPart
    /\ tb_lineno = NoLine
    /\ logged_evals = EmptyMap
    /\ logged_stdout = EmptyMap
    /\ _unmatched_stdout = <<>>
    /\ skipped_parts = <<>>
    /\ _runstate = RuntimeState
    /\ globs = EmptyGlobals
    /\ sys_stdout = "console"
    /\ pc = "ready"
    /\ on_error = "raise"
    /\ partx = 0
    /\ code = NoCode
    /\ cap = CaptureStdout("console")
    /\ outcome = "none"
    /\ summary = NoSummary
    /\ trace = <<>>
    /\ stdout_at_call = "console"
    /\ parse_calls = 0
    /\ parse_exc = NoError

\* PythonPathContext.__init__
PythonPathContext(dpath, index) == [dpath |-> dpath, index |-> index]

\* no __exit__ yet
NoExit == [done |-> FALSE, raised |-> FALSE, before |-> <<>>, after |-> <<>>]

\* no call of import_module_from_path yet
NoImport == [phase |-> "idle", self |-> PythonPathContext("d", -1),
             before |-> <<>>, after |-> <<>>]

\* _label_docsrc_lines has not been called
NoLabel == [phase |-> "off", lines |-> <<>>, pos |-> 0, prev_state |-> TEXT,
            state_indent |-> 0, labeled_lines |-> <<>>, error |-> None,
            steps |-> <<>>, grouped |-> <<>>]

\* _workaround_16806 has not been called
NoWork == [phase |-> "off", lines |-> <<>>, ps1_linenos |-> <<>>,
           starts |-> <<>>, ends |-> <<>>, todo |-> <<>>, a |-> 0, b |-> 0,
           new_ps1_lines |-> <<>>, steps |-> <<>>]

\* no CaptureStdout object exists but that of run()
NoCaps == [objs |-> <<>>, stdout |-> "stdout", log |-> <<>>]

\* nothing has touched the search path, nothing is being labelled
InitPathIdle ==
    /\ sys_path = <<>>
    /\ ctx = PythonPathContext("d", -1)
    /\ entries = <<>>
    /\ last_exit = NoExit
    /\ imp = NoImport
    /\ lab = NoLabel
    /\ wk = NoWork
    /\ caps = NoCaps

Init == InitObject /\ chk = NoCheck /\ InitPathIdle

\* DocTest._parse: the parts are parsed when there are none yet
_parse(parts, src) == IF parts = <<>> THEN parse(src) ELSE parts

\* how many calls of the parser to follow
MaxParseCalls == 2

\* the calls of DoctestParser().parse after _parse has run once more
ParserCalls(parts, calls) == IF parts = <<>> THEN calls + 1 ELSE calls

\* DocTest._test_globals: self.globs itself, updated with the module's names
_test_globals(g, mod) ==
    IF mod = None THEN g
    ELSE [n \in Names |-> IF ModuleDict[n] # Unbound THEN ModuleDict[n] ELSE g[n]]

\* the runtime state of the previous run kept
KeepRunstate(previous) == previous

\* `runstate = self._runstate = directive.RuntimeState(default_state)`
NewRunstate(previous) == RuntimeState

\* run() when the parse of _parse raises: nothing after the call is reached
RunParseError(oe) ==
    /\ pc = "ready"
    /\ _parts = <<>>
    /\ ParseRaises(docsrc, Info) # NoError
    /\ ParserCalls(_parts, parse_calls) <= MaxParseCalls
    /\ on_error' = oe
    /\ parse_calls' = ParserCalls(_parts, parse_calls)
    /\ parse_exc' = ParseRaises(docsrc, Info)
    /\ outcome' = "parse_error"
    /\ UNCHANGED <<docsrc, mode, module, _parts, exc_info, failed_part,
                   tb_lineno, logged_evals, logged_stdout, _unmatched_stdout,
                   skipped_parts, _runstate, globs, sys_stdout, pc, partx,
                   code, cap, summary, trace, stdout_at_call, sidevars>>

\* the statements of run() before its loop
Run(oe) ==
    /\ pc = "ready"
    /\ _parts = <<>> => ParseRaises(docsrc, Info) = NoError
    /\ parse_exc' = NoError
    /\ on_error' = oe
    /\ ParserCalls(_parts, parse_calls) <= MaxParseCalls
    /\ _parts' = _parse(_parts, docsrc)
    /\ parse_calls' = ParserCalls(_parts, parse_calls)
    /\ globs' = _test_globals(globs, module)
    /\ logged_evals' = EmptyMap
    /\ logged_stdout' = EmptyMap
    /\ _unmatched_stdout' = <<>>
    /\ skipped_parts' = <<>>
    /\ exc_info' = NoExc
    /\ _runstate' = NewRunstate(_runstate)
    /\ cap' = CaptureStdout(sys_stdout)
    /\ code' = NoCode
    /\ partx' = 0
    /\ pc' = IF _parts' = <<>> THEN "post" ELSE "running"
    /\ trace' = <<>>
    /\ stdout_at_call' = sys_stdout
    /\ outcome' = "none"
    /\ summary' = NoSummary
    /\ UNCHANGED <<docsrc, mode, module, failed_part, tb_lineno, sys_stdout,
                   sidevars>>

\* the directives folded into a state built from the defaults
FoldDirectivesFresh(runstate, part) == update(RuntimeState, part.directives)

\* runstate.update(part.directives) as run() calls it for every part
FoldDirectives(runstate, part) == update(runstate, part.directives)

\* the SKIP option never honoured
ShouldSkipNever(runstate) == FALSE

\* `if runstate['SKIP']`
ShouldSkip(runstate) == GetItem(runstate, "SKIP")

\* a failure under the return policy that goes on with the next part
OnFailureContinue(policy) == IF policy = "raise" THEN "raise" ELSE "continue"

\* how the handlers of GotWantException and of Exception leave the loop
OnFailure(policy) == IF policy = "raise" THEN "raise" ELSE "break"

\* the values of the options a group sees
Seen(runstate) == [o \in Options |-> GetItem(runstate, o)]

\* what the body of the loop of run() does to the part at partx: every value
\* it assigns, and how it leaves the body ("continue", "break" or "raise")
Body ==
    LET part == _parts[partx + 1]
        runstate == FoldDirectives(_runstate, part)
        skip == ShouldSkip(runstate)
        \* compile, and the handler of its exception
        comp == Compile(part, partx)
        compile_raises == ~comp.ok /\ on_error = "raise"
        code1 == IF comp.ok THEN comp.code ELSE code
        \* with cap: eval or exec
        entered == start(cap, sys_stdout)
        ex == ExecCode(code1, part.use_eval, globs)
        exited == __exit__(write(entered.cap, entered.stdout, ex.out),
                           entered.stdout)
        got_stdout == exited.cap.text
        raised == ex.exc # None
        has_want == part.want # <<>>
        \* except Exception as ex: the exception may be the expected output
        matched == raised /\ has_want
                   /\ check_exception(ExcText(ex.exc), part.want, runstate)
        propagates == raised /\ ~matched
        \* else: the got/want check
        checked == ~raised /\ has_want /\ ~GetItem(runstate, "IGNORE_WANT")
        gotwant == checked /\ ~check(part, got_stdout, ex.got_eval, runstate)
        unmatched == IF raised \/ gotwant THEN _unmatched_stdout
                     ELSE IF has_want THEN <<>>
                     ELSE Append(_unmatched_stdout, got_stdout)
        \* the handlers of the outer try
        graceful == propagates /\ ex.exc = "ExitTestException"
        error == propagates /\ ~graceful
        failure == gotwant \/ error
        exc == IF gotwant THEN [type |-> "GotWantException", part |-> partx]
               ELSE IF error THEN [type |-> ex.exc, part |-> partx]
               ELSE IF ~comp.ok THEN [type |-> "SyntaxError", part |-> partx]
               ELSE exc_info
        lineno == IF error THEN ex.lineno
                  ELSE IF ~comp.ok THEN CompileCallLine
                  ELSE tb_lineno
        \* the record of this pass kept in trace
        quiet == [part |-> partx, skip |-> GetItem(runstate, "SKIP"),
                  state |-> Seen(runstate), base |-> _runstate.global,
                  compiled |-> FALSE, compile_ok |-> FALSE, entered |-> FALSE,
                  unit |-> NoPart, done |-> 0, seen |-> globs,
                  compared |-> FALSE, exc |-> None, fail |-> None,
                  out |-> <<>>]
        event == [quiet EXCEPT !.compiled = TRUE, !.compile_ok = comp.ok,
                               !.entered = TRUE, !.unit = code1.part,
                               !.done = ex.done,
                               !.compared = (raised /\ has_want) \/ checked,
                               !.exc = ex.exc, !.out = ex.out,
                               !.fail = IF gotwant THEN "gotwant"
                                        ELSE IF error THEN "error" ELSE None]
        same == [ctl |-> "continue", runstate |-> runstate,
                 skipped_parts |-> skipped_parts, failed_part |-> failed_part,
                 exc_info |-> exc_info, tb_lineno |-> tb_lineno, code |-> code,
                 cap |-> cap, sys_stdout |-> sys_stdout, globs |-> globs,
                 logged_evals |-> logged_evals, logged_stdout |-> logged_stdout,
                 unmatched |-> _unmatched_stdout, event |-> quiet]
    IN  IF skip
        THEN [same EXCEPT !.skipped_parts = Append(skipped_parts, partx)]
        ELSE IF compile_raises
        THEN [same EXCEPT !.ctl = "raise", !.failed_part = partx,
                          !.exc_info = [type |-> "SyntaxError",
                                        part |-> partx],
                          !.tb_lineno = CompileCallLine,
                          !.event = [quiet EXCEPT !.compiled = TRUE]]
        ELSE [ctl |-> IF failure THEN OnFailure(on_error)
                      ELSE IF graceful THEN "break" ELSE "continue",
              runstate |-> runstate,
              skipped_parts |-> skipped_parts,
              failed_part |-> partx,
              exc_info |-> exc,
              tb_lineno |-> lineno,
              code |-> code1,
              cap |-> exited.cap,
              sys_stdout |-> exited.stdout,
              globs |-> ex.globs,
              logged_evals |-> Put(logged_evals, partx, ex.got_eval),
              logged_stdout |-> Put(logged_stdout, partx, got_stdout),
              unmatched |-> unmatched,
              event |-> event]

\* one pass through the body of the loop of run()
LoopBody ==
    /\ pc = "running"
    /\ partx < Len(_parts)
    /\ \E b \in {Body} :
       /\ _runstate' = b.runstate
       /\ skipped_parts' = b.skipped_parts
       /\ failed_part' = b.failed_part
       /\ exc_info' = b.exc_info
       /\ tb_lineno' = b.tb_lineno
       /\ code' = b.code
       /\ cap' = b.cap
       /\ sys_stdout' = b.sys_stdout
       /\ globs' = b.globs
       /\ logged_evals' = b.logged_evals
       /\ logged_stdout' = b.logged_stdout
       /\ _unmatched_stdout' = b.unmatched
       /\ trace' = Append(trace, b.event)
       /\ partx' = IF b.ctl = "continue" THEN partx + 1 ELSE partx
       /\ pc' = IF b.ctl = "raise" THEN "ready"
                ELSE IF b.ctl = "break" \/ partx + 1 = Len(_parts) THEN "post"
                ELSE "running"
       /\ outcome' = IF b.ctl = "raise" THEN "raised" ELSE outcome
    /\ UNCHANGED <<docsrc, mode, module, _parts, on_error, summary,
                   stdout_at_call, sidevars, parse_calls, parse_exc>>

\* DocTest.post_run: the summary returned to the caller
post_run(exc) ==
    IF exc = NoExc THEN [passed |-> TRUE, has_exc_info |-> FALSE, exc_info |-> NoExc]
    ELSE [passed |-> FALSE, has_exc_info |-> TRUE, exc_info |-> exc]

\* the statements of run() after its loop: with every part skipped in
\* 'pytest' mode pytest.skip() raises, otherwise the summary is returned
PostRun ==
    /\ pc = "post"
    /\ failed_part' = IF exc_info = NoExc THEN NoPart ELSE failed_part
    /\ IF Len(skipped_parts) = Len(_parts) /\ mode = "pytest"
       THEN outcome' = "skipped" /\ summary' = summary
       ELSE outcome' = "returned" /\ summary' = post_run(exc_info)
    /\ pc' = "ready"
    /\ UNCHANGED <<docsrc, mode, module, _parts, exc_info, tb_lineno,
                   logged_evals, logged_stdout, _unmatched_stdout,
                   skipped_parts, _runstate, globs, sys_stdout, on_error,
                   partx, code, cap, trace, stdout_at_call, sidevars,
                   parse_calls, parse_exc>>

Next ==
    \/ \E oe \in {"raise", "return"} : Run(oe)
    \/ \E oe \in {"raise", "return"} : RunParseError(oe)
    \/ LoopBody
    \/ PostRun

Spec == Init /\ [][Next]_vars

(***************************************************************************)
(* The checker called on its own: check_output and normalize applied to    *)
(* texts drawn from a bounded set.                                         *)
(***************************************************************************)
MaxText == 4

TextChars == {"1", "u", "'", " ", "\n", "\r"}

Texts == UNION {[1..n -> TextChars] : n \in 0..MaxText}

\* wants: empty, the wildcard, a wildcard inside a longer want, plain and
\* quoted texts, with and without a literal prefix or trailing whitespace
WantSamples ==
    {<<>>, ELLIPSIS_MARKER, <<"1">> \o ELLIPSIS_MARKER, <<"1">>,
     <<"1", " ">>, <<"'", "1", "'">>, <<"u", "'", "1", "'">>,
     <<"u", "'", "u", "'">>}

runvars == <<docsrc, mode, module, _parts, exc_info, failed_part, tb_lineno,
             logged_evals, logged_stdout, _unmatched_stdout, skipped_parts,
             _runstate, globs, sys_stdout, pc, on_error, partx, code, cap,
             outcome, summary, trace, stdout_at_call, parse_calls,
             parse_exc>>

InitChecker ==
    /\ InitObject
    /\ docsrc = <<>>
    /\ mode = "native"
    /\ \E g \in Texts, w \in WantSamples :
          chk = [NoCheck EXCEPT !.phase = "input", !.got = g, !.want = w]
    /\ InitPathIdle

\* check_output(got, want)
CheckOutput ==
    /\ chk.phase = "input"
    /\ chk' = [chk EXCEPT !.phase = "checked",
                          !.result = check_output(chk.got, chk.want)]
    /\ UNCHANGED <<runvars, pathvars, lab, wk, caps>>

\* got, want = normalize(got, want)
Normalize ==
    /\ chk.phase = "input"
    /\ chk' = [chk EXCEPT !.phase = "normalized",
                          !.norm = normalize(chk.got, chk.want)]
    /\ UNCHANGED <<runvars, pathvars, lab, wk, caps>>

\* normalize applied to what normalize returned
NormalizeAgain ==
    /\ chk.phase = "normalized"
    /\ chk' = [chk EXCEPT !.phase = "renormalized",
                          !.renorm = normalize(chk.norm[1], chk.norm[2])]
    /\ UNCHANGED <<runvars, pathvars, lab, wk, caps>>

NextChecker == CheckOutput \/ Normalize \/ NormalizeAgain

SpecChecker == InitChecker /\ [][NextChecker]_vars

(***************************************************************************)
(* checker.py: the report of GotWantException                              *)
(***************************************************************************)
MaxDiffText == 6

\* got and want of a GotWantException: lines "1" and empty lines
DiffTexts == UNION {[1..n -> {"1", "\n"}] : n \in 0..MaxDiffText}

BLANKLINE_MARKER == <<"<BLANKLINE>">>

\* text.count(c)
count(text, c) == Cardinality({i \in 1..Len(text) : text[i] = c})

\* re.sub('(?m)^[ ]*(?=\n)', BLANKLINE_MARKER, got): a line of nothing but
\* blanks that ends with a newline shows the marker instead
mark_blank_lines(got) ==
    LET lines == splitlines(got, <<>>)
        blank(l) == /\ Last(l) = "\n"
                    /\ \A i \in 1..(Len(l) - 1) : l[i] = " "
    IN  Flatten([i \in 1..Len(lines) |->
                    IF blank(lines[i]) THEN BLANKLINE_MARKER \o <<"\n">>
                    ELSE lines[i]])

\* GotWantException._do_a_fancy_diff
_do_a_fancy_diff(got, want) == count(want, "\n") > 2 /\ count(got, "\n") > 2

\* GotWantException.output_difference: which report is returned, and the
\* texts it shows
output_difference(got, want) ==
    LET got1 == mark_blank_lines(got)
        report(kind, n) == [kind |-> kind, context |-> n, want |-> want,
                            got |-> got1]
    IN  IF _do_a_fancy_diff(got, want) THEN report("Differences", 2)
        ELSE IF want # <<>> /\ got1 # <<>> THEN report("Expected/Got", 0)
        ELSE IF want # <<>> THEN report("Expected/Got nothing", 0)
        ELSE report("AssertionError", 0)

\* a GotWantException is raised for a want that the output does not match
InitDiff ==
    /\ InitObject
    /\ docsrc = <<>>
    /\ mode = "native"
    /\ \E g \in DiffTexts, w \in DiffTexts :
          /\ ~check_output(g, w)
          /\ chk = [NoCheck EXCEPT !.phase = "mismatch", !.got = g, !.want = w]
    /\ InitPathIdle

\* ex.output_difference()
OutputDifference ==
    /\ chk.phase = "mismatch"
    /\ chk' = [chk EXCEPT !.phase = "reported",
                          !.report = output_difference(chk.got, chk.want)]
    /\ UNCHANGED <<runvars, pathvars, lab, wk, caps>>

SpecDiff == InitDiff /\ [][OutputDifference]_vars

(***************************************************************************)
(* utils/util_import.py: the module search path and PythonPathContext      *)
(***************************************************************************)
MaxPath == 2
MaxDepth == 2

\* the directories that occur in sys.path
Dirs == {"a", "d"}

\* the values of sys.path between two uses of a context
SysPaths == UNION {[1..n -> Dirs] : n \in 0..MaxPath}

\* the module files that are imported: directory and path below it
Modpaths == {[dpath |-> "d", rel_modpath |-> "m.py"]}

\* static.split_modpath: the directory of a module file and the rest
split_modpath(modpath) == <<modpath.dpath, modpath.rel_modpath>>

\* list.insert(index, x) for index >= 0: past the end it appends
insert(l, index, x) ==
    IF index >= Len(l) THEN Append(l, x)
    ELSE SubSeq(l, 1, index) \o <<x>> \o SubSeq(l, index + 1, Len(l))

\* list.pop(index) for 0 <= index < len(l)
pop(l, index) == SubSeq(l, 1, index) \o SubSeq(l, index + 2, Len(l))

\* PythonPathContext.__enter__: the object and sys.path afterwards
__enter__(self, path) ==
    LET index == IF self.index < 0 THEN Len(path) + self.index + 1
                 ELSE self.index
    IN  [self |-> [self EXCEPT !.index = index],
         path |-> insert(path, index, self.dpath)]

\* PythonPathContext.__exit__: sys.path afterwards, and whether the
\* AssertionError was raised
PythonPathContext__exit__(self, path) ==
    IF Len(path) <= self.index \/ path[self.index + 1] # self.dpath
    THEN [raised |-> TRUE, path |-> path]
    ELSE [raised |-> FALSE, path |-> pop(path, self.index)]

\* no import is between its __enter__ and its __exit__
NotImporting == imp.phase # "importing"

\* other code assigns sys.path while no context is active
SetPath(p) ==
    /\ NotImporting
    /\ entries = <<>>
    /\ sys_path' = p
    /\ last_exit' = NoExit
    /\ UNCHANGED <<runvars, chk, lab, wk, caps, ctx, entries, imp>>

\* "with ctx:" is entered, also inside a block of the same object
Enter ==
    /\ NotImporting
    /\ Len(entries) < MaxDepth
    /\ \E r \in {__enter__(ctx, sys_path)} :
          /\ ctx' = r.self
          /\ sys_path' = r.path
    /\ entries' = Append(entries, sys_path)
    /\ last_exit' = NoExit
    /\ UNCHANGED <<runvars, chk, lab, wk, caps, imp>>

\* the innermost "with ctx:" block is left
Exit ==
    /\ NotImporting
    /\ entries # <<>>
    /\ \E r \in {PythonPathContext__exit__(ctx, sys_path)} :
          /\ sys_path' = r.path
          /\ last_exit' = [done |-> TRUE, raised |-> r.raised,
                        before |-> Last(entries), after |-> r.path]
    /\ entries' = SubSeq(entries, 1, Len(entries) - 1)
    /\ UNCHANGED <<runvars, chk, lab, wk, caps, ctx, imp>>

\* import_module_from_path up to the call of import_module_from_name
ImportEnter(modpath) ==
    /\ NotImporting
    /\ entries = <<>>
    /\ \E r \in {__enter__(PythonPathContext(split_modpath(modpath)[1], -1),
                           sys_path)} :
          /\ imp' = [phase |-> "importing", self |-> r.self,
                     before |-> sys_path, after |-> r.path]
          /\ sys_path' = r.path
    /\ last_exit' = NoExit
    /\ UNCHANGED <<runvars, chk, lab, wk, caps, ctx, entries>>

\* import_module_from_name returns or raises, and the with block is left
ImportLeave(ok) ==
    /\ imp.phase = "importing"
    /\ \E r \in {PythonPathContext__exit__(imp.self, sys_path)} :
          /\ sys_path' = r.path
          /\ imp' = [imp EXCEPT
                       !.phase = IF ok /\ ~r.raised THEN "returned"
                                 ELSE "raised",
                       !.after = r.path]
    /\ UNCHANGED <<runvars, chk, lab, wk, caps, ctx, entries, last_exit>>

InitPath ==
    /\ InitObject
    /\ docsrc = <<>>
    /\ mode = "native"
    /\ chk = NoCheck
    /\ sys_path \in SysPaths
    /\ ctx \in {PythonPathContext("d", index) : index \in {-1, 0}}
    /\ entries = <<>>
    /\ last_exit = NoExit
    /\ imp = NoImport
    /\ lab = NoLabel
    /\ wk = NoWork
    /\ caps = NoCaps

NextPath ==
    \/ \E p \in SysPaths : SetPath(p)
    \/ Enter
    \/ Exit
    \/ \E modpath \in Modpaths : ImportEnter(modpath)
    \/ \E ok \in BOOLEAN : ImportLeave(ok)

SpecPath == InitPath /\ [][NextPath]_vars

(***************************************************************************)
(* parser.py: _label_docsrc_lines on raw lines                             *)
(*                                                                         *)
(* A line is a sequence of four-column cells: "    " is one step of        *)
(* indentation, ">>> " and "... " are the prompts, and the last cell is    *)
(* what follows: "1" a complete expression, "(" an opening bracket, ")" a  *)
(* closing one, "..." the bare continuation marker.                        *)
(***************************************************************************)
MaxRawLines == 4

RawLines ==
    {<<">>> ", "1">>, <<">>> ", "(">>, <<"... ", ")">>, <<"    ", ")">>,
     <<")">>, <<>>, <<"1">>, <<"...">>, <<"    ", ">>> ", "1">>,
     <<"    ", "1">>}

\* line.strip()
strip(line) == SelectSeq(line, LAMBDA c : c # "    ")

\* the width of the match of INDENT_RE, 0 for a blank line, in cells
line_indent(line) ==
    IF strip(line) = <<>> THEN 0
    ELSE SetMin({i \in 1..Len(line) : line[i] # "    "}) - 1

\* line[state_indent:]
norm_line(line, state_indent) == SubSeq(line, state_indent + 1, Len(line))

\* hasprefix(line, prefixes): the line is a prefix or starts with it and a
\* blank
hasprefix(line, prefixes) ==
    /\ line # <<>>
    /\ \E p \in prefixes : line = <<p>> \/ line[1] = p \o " "

\* static.is_balanced_statement: no bracket and no triple-quoted literal is
\* left open
is_balanced_statement(source_parts) ==
    /\ count(source_parts, "(") <= count(source_parts, ")")
    /\ count(source_parts, "\"\"\"") % 2 = 0

\* prefix.strip() of the first four columns of a line
prefix_strip(norm) ==
    IF norm = <<>> \/ norm[1] = "    " THEN ""
    ELSE IF norm[1] \in {">>> ", ">>>"} THEN ">>>"
    ELSE IF norm[1] \in {"... ", "..."} THEN "..."
    ELSE norm[1]

RECURSIVE CompleteFrom(_, _, _, _)
\* the loop of _complete_source: k is the number of the last line taken
CompleteFrom(lines, k, state_indent, source_parts) ==
    IF is_balanced_statement(source_parts)
    THEN [last |-> k, error |-> None]
    ELSE IF k = Len(lines)
    THEN [last |-> k, error |-> "SyntaxError"]
    ELSE LET norm == norm_line(lines[k + 1], state_indent) IN
         IF prefix_strip(norm) \notin {">>>", "...", ""}
         THEN [last |-> k, error |-> "SyntaxError"]
         ELSE CompleteFrom(lines, k + 1, state_indent,
                           source_parts \o (IF norm = <<>> THEN <<>>
                                            ELSE Tail(norm)))

\* a statement never takes a second line
_complete_source_one_line(lines, k, state_indent) ==
    [last |-> k, error |-> None]

\* _complete_source: the lines taken from the iterator for the statement
\* that starts on line k, or the error raised
_complete_source(lines, k, state_indent) ==
    LET norm == norm_line(lines[k], state_indent) IN
    IF prefix_strip(norm) \notin {">>>", "..."}
    THEN [last |-> k, error |-> "AssertionError"]
    ELSE CompleteFrom(lines, k, state_indent, Tail(norm))

\* a line without a prompt that follows text is taken for a want
curr_state_want_after_text(prev_state, state_indent, line) ==
    IF prev_state = TEXT
    THEN IF hasprefix(strip(line), {">>>"}) THEN DSRC
         ELSE IF strip(line) # <<>> THEN WANT
         ELSE TEXT
    ELSE IF prev_state = WANT
    THEN IF strip(line) = <<>> THEN TEXT
         ELSE IF hasprefix(strip(line), {">>>"}) THEN DSRC
         ELSE IF line_indent(line) < state_indent THEN TEXT
         ELSE WANT
    ELSE IF strip(line) = <<>> \/ line_indent(line) < state_indent THEN TEXT
    ELSE IF hasprefix(norm_line(line, state_indent), {">>>", "..."})
    THEN IF strip(line) = <<"...">> THEN WANT ELSE DSRC
    ELSE WANT

\* in a want the indentation is looked at before the prompt
curr_state_indent_first(prev_state, state_indent, line) ==
    IF prev_state = WANT
    THEN IF strip(line) = <<>> THEN TEXT
         ELSE IF line_indent(line) < state_indent THEN TEXT
         ELSE IF hasprefix(strip(line), {">>>"}) THEN DSRC
         ELSE WANT
    ELSE IF prev_state = TEXT
    THEN IF hasprefix(strip(line), {">>>"}) THEN DSRC ELSE TEXT
    ELSE IF strip(line) = <<>> \/ line_indent(line) < state_indent THEN TEXT
    ELSE IF hasprefix(norm_line(line, state_indent), {">>>", "..."})
    THEN IF strip(line) = <<"...">> THEN WANT ELSE DSRC
    ELSE WANT

\* the transitions of the labeller: the state of a line from the state of
\* the line before it
curr_state(prev_state, state_indent, line) ==
    IF prev_state = TEXT
    THEN IF hasprefix(strip(line), {">>>"}) THEN DSRC ELSE TEXT
    ELSE IF prev_state = WANT
    THEN IF strip(line) = <<>> THEN TEXT
         ELSE IF hasprefix(strip(line), {">>>"}) THEN DSRC
         ELSE IF line_indent(line) < state_indent THEN TEXT
         ELSE WANT
    ELSE IF strip(line) = <<>> \/ line_indent(line) < state_indent THEN TEXT
    ELSE IF hasprefix(norm_line(line, state_indent), {">>>", "..."})
    THEN IF strip(line) = <<"...">> THEN WANT ELSE DSRC
    ELSE WANT

\* _label_docsrc_lines is called on a docstring
InitLabel ==
    /\ InitObject
    /\ docsrc = <<>>
    /\ mode = "native"
    /\ chk = NoCheck
    /\ sys_path = <<>>
    /\ ctx = PythonPathContext("d", -1)
    /\ entries = <<>>
    /\ last_exit = NoExit
    /\ imp = NoImport
    /\ wk = NoWork
    /\ caps = NoCaps
    /\ \E lines \in UNION {[1..n -> RawLines] : n \in 0..MaxRawLines} :
          lab = [NoLabel EXCEPT !.phase = "labelling", !.lines = lines]

\* one pass through the loop of _label_docsrc_lines, with the lines that
\* _complete_source takes from the iterator
LabelLine ==
    /\ lab.phase = "labelling"
    /\ lab.pos < Len(lab.lines)
    /\ LET line == lab.lines[lab.pos + 1]
           curr == curr_state(lab.prev_state, lab.state_indent, line)
           indent == IF lab.prev_state = curr THEN lab.state_indent
                     ELSE IF curr = TEXT THEN 0
                     ELSE IF curr = DSRC THEN line_indent(line)
                     ELSE lab.state_indent
           src == IF curr = DSRC
                  THEN _complete_source(lab.lines, lab.pos + 1, indent)
                  ELSE [last |-> lab.pos + 1, error |-> None]
           new == [i \in 1..(src.last - lab.pos) |->
                      [label |-> curr, line |-> lab.lines[lab.pos + i]]]
           step == [idx |-> lab.pos + 1, prev |-> lab.prev_state,
                    curr |-> curr, indent_before |-> lab.state_indent,
                    indent |-> indent, last |-> src.last]
       IN  lab' = IF src.error # None
                  THEN [lab EXCEPT !.phase = "raised", !.error = src.error]
                  ELSE [lab EXCEPT !.pos = src.last,
                                   !.prev_state = curr,
                                   !.state_indent = indent,
                                   !.labeled_lines = @ \o new,
                                   !.steps = Append(@, step),
                                   !.phase = IF src.last = Len(lab.lines)
                                             THEN "returned" ELSE @]
    /\ UNCHANGED <<runvars, chk, pathvars, wk, caps>>

\* the labelling of an empty docstring returns at once
LabelNothing ==
    /\ lab.phase = "labelling"
    /\ lab.lines = <<>>
    /\ lab' = [lab EXCEPT !.phase = "returned"]
    /\ UNCHANGED <<runvars, chk, pathvars, wk, caps>>

\* _group_labeled_lines on what the labeller returned
GroupLabeled ==
    /\ lab.phase = "returned"
    /\ lab' = [lab EXCEPT !.phase = "grouped",
                          !.grouped = _group_labeled_lines(lab.labeled_lines)]
    /\ UNCHANGED <<runvars, chk, pathvars, wk, caps>>

NextLabel == LabelLine \/ LabelNothing \/ GroupLabeled

SpecLabel == InitLabel /\ [][NextLabel]_vars

(***************************************************************************)
(* parser.py: _workaround_16806, called by _locate_ps1_linenos with the    *)
(* lines of a chunk that ast.parse accepted and the line numbers of the    *)
(* statement nodes.  A line is the sequence of its tokens.                 *)
(***************************************************************************)
MaxStatements == 3

\* the statements of a chunk: one line, two statements on one line, a
\* triple-quoted literal of two or three lines, a bracket of two lines
Shapes == {"plain", "pair", "literal2", "literal3", "bracket"}

RECURSIVE ast_parse(_, _, _)
\* the exec_source_lines of a chunk made of the statements of program and
\* what ast.parse reports for them: linenos holds node.lineno - 1 of every
\* statement node, which for a multi-line literal is its last line on an
\* interpreter with issue 16806 and its first line on the others; starts
\* and ends hold the lines each statement really spans
ast_parse(program, issue_16806, lineno) ==
    IF program = <<>>
    THEN [lines |-> <<>>, linenos |-> <<>>, starts |-> <<>>, ends |-> <<>>]
    ELSE LET shape == Head(program)
             body == CASE shape = "plain" -> << <<"1">> >>
                       [] shape = "pair" -> << <<"1", ";", "1">> >>
                       [] shape = "literal2" ->
                              << <<"\"\"\"">>, <<"\"\"\"">> >>
                       [] shape = "literal3" ->
                              << <<"\"\"\"">>, <<"1">>, <<"\"\"\"">> >>
                       [] shape = "bracket" -> << <<"(">>, <<")">> >>
             n == Len(body)
             first == IF shape \in {"literal2", "literal3"} /\ issue_16806
                      THEN lineno + n - 1 ELSE lineno
             rest == ast_parse(Tail(program), issue_16806, lineno + n)
         IN  IF shape = "pair"
             THEN [lines |-> body \o rest.lines,
                   linenos |-> <<first, first>> \o rest.linenos,
                   starts |-> <<lineno, lineno>> \o rest.starts,
                   ends |-> <<lineno + n, lineno + n>> \o rest.ends]
             ELSE [lines |-> body \o rest.lines,
                   linenos |-> <<first>> \o rest.linenos,
                   starts |-> <<lineno>> \o rest.starts,
                   ends |-> <<lineno + n>> \o rest.ends]

\* python's lines[a:b] for any integer a and b >= 0
PySlice(lines, a, b) ==
    LET n == Len(lines)
        lo == IF a < 0 THEN (IF n + a < 0 THEN 0 ELSE n + a) ELSE a
        hi == IF b > n THEN n ELSE b
    IN  SubSeq(lines, lo + 1, hi)

\* a balance test that sees brackets only
NotBalancedBrackets(lines, a, b) ==
    count(Flatten(PySlice(lines, a, b)), "(")
        > count(Flatten(PySlice(lines, a, b)), ")")

\* the condition of the while loop
NotBalanced(lines, a, b) ==
    ~is_balanced_statement(Flatten(PySlice(lines, a, b)))

reversed(s) == [i \in 1..Len(s) |-> s[Len(s) + 1 - i]]

\* _locate_ps1_linenos calls _workaround_16806(ps1_linenos,
\* exec_source_lines); new_ps1_lines = [], b = len(exec_source_lines)
InitWork ==
    /\ InitObject
    /\ docsrc = <<>>
    /\ mode = "native"
    /\ chk = NoCheck
    /\ sys_path = <<>>
    /\ ctx = PythonPathContext("d", -1)
    /\ entries = <<>>
    /\ last_exit = NoExit
    /\ imp = NoImport
    /\ lab = NoLabel
    /\ caps = NoCaps
    /\ \E program \in UNION {[1..n -> Shapes] : n \in 0..MaxStatements},
          issue_16806 \in BOOLEAN :
          LET pt == ast_parse(program, issue_16806, 0) IN
          wk = [NoWork EXCEPT !.phase = "for", !.lines = pt.lines,
                              !.ps1_linenos = pt.linenos,
                              !.starts = pt.starts, !.ends = pt.ends,
                              !.todo = reversed(pt.linenos),
                              !.b = Len(pt.lines)]

\* for a in ps1_linenos[::-1]: the next reported start
NextStart ==
    /\ wk.phase = "for"
    /\ wk.todo # <<>>
    /\ wk' = [wk EXCEPT !.phase = "while", !.a = Head(wk.todo),
                        !.todo = Tail(wk.todo)]
    /\ UNCHANGED <<runvars, chk, pathvars, lab, caps>>

\* a while loop that shifts a down two lines at a time
ShiftDownTwo ==
    /\ wk.phase = "while"
    /\ NotBalanced(wk.lines, wk.a, wk.b)
    /\ wk.a > 0 - (Len(wk.lines) + 2)
    /\ wk' = [wk EXCEPT !.a = @ - 2]
    /\ UNCHANGED <<runvars, chk, pathvars, lab, caps>>

\* one pass through the while loop: a -= 1
ShiftDown ==
    /\ wk.phase = "while"
    /\ NotBalanced(wk.lines, wk.a, wk.b)
    /\ wk.a > 0 - (Len(wk.lines) + 2)
    /\ wk' = [wk EXCEPT !.a = @ - 1]
    /\ UNCHANGED <<runvars, chk, pathvars, lab, caps>>

\* the while loop ends: new_ps1_lines.append(a); b = a
PushStart ==
    /\ wk.phase = "while"
    /\ ~NotBalanced(wk.lines, wk.a, wk.b)
    /\ wk' = [wk EXCEPT !.phase = "for",
                        !.new_ps1_lines = Append(@, wk.a),
                        !.steps = Append(@, [b |-> wk.b, a |-> wk.a]),
                        !.b = wk.a]
    /\ UNCHANGED <<runvars, chk, pathvars, lab, caps>>

\* the for loop ends: return set(new_ps1_lines)
ReturnStarts ==
    /\ wk.phase = "for"
    /\ wk.todo = <<>>
    /\ wk' = [wk EXCEPT !.phase = "returned"]
    /\ UNCHANGED <<runvars, chk, pathvars, lab, caps>>

NextWork == NextStart \/ ShiftDown \/ PushStart \/ ReturnStarts

\* the interpreter keeps executing the loops of the call
SpecWork == InitWork /\ [][NextWork]_vars /\ WF_vars(NextWork)

(***************************************************************************)
(* util_stream.py: CaptureStdout objects constructed, started and stopped  *)
(* in any order.  caps.stdout is sys.stdout; caps.log keeps, for every     *)
(* call, sys.stdout before and after it.                                   *)
(***************************************************************************)
MaxCaps == 2
MaxCapCalls == 5

InitCaps ==
    /\ InitObject
    /\ docsrc = <<>>
    /\ mode = "native"
    /\ chk = NoCheck
    /\ sys_path = <<>>
    /\ ctx = PythonPathContext("d", -1)
    /\ entries = <<>>
    /\ last_exit = NoExit
    /\ imp = NoImport
    /\ lab = NoLabel
    /\ wk = NoWork
    /\ caps = NoCaps

\* CaptureStdout(enabled=enabled): the object keeps the sys.stdout of the
\* moment it is constructed
Construct(enabled) ==
    /\ Len(caps.objs) < MaxCaps
    /\ Len(caps.log) < MaxCapCalls
    /\ LET n == Len(caps.objs) + 1
           obj == [CaptureStdout(caps.stdout) EXCEPT
                      !.enabled = enabled,
                      !.cap_stdout = CapHandle \o ToString(n)]
       IN  caps' = [caps EXCEPT
                       !.objs = Append(@, obj),
                       !.log = Append(@, [op |-> "init", obj |-> n,
                                          before |-> caps.stdout,
                                          after |-> caps.stdout])]
    /\ UNCHANGED <<runvars, chk, pathvars, lab, wk>>

\* caps after a method of the i-th object returned r
Called(i, name, r) ==
    [objs |-> [caps.objs EXCEPT ![i] = r.cap],
     stdout |-> r.stdout,
     log |-> Append(caps.log, [op |-> name, obj |-> i,
                               before |-> caps.stdout,
                               after |-> r.stdout])]

StartCap(i) ==
    /\ i \in 1..Len(caps.objs)
    /\ Len(caps.log) < MaxCapCalls
    /\ caps' = Called(i, "start", start(caps.objs[i], caps.stdout))
    /\ UNCHANGED <<runvars, chk, pathvars, lab, wk>>

StopCap(i) ==
    /\ i \in 1..Len(caps.objs)
    /\ Len(caps.log) < MaxCapCalls
    /\ caps' = Called(i, "stop", stop(caps.objs[i], caps.stdout))
    /\ UNCHANGED <<runvars, chk, pathvars, lab, wk>>

ExitCap(i) ==
    /\ i \in 1..Len(caps.objs)
    /\ Len(caps.log) < MaxCapCalls
    /\ caps' = Called(i, "exit", __exit__(caps.objs[i], caps.stdout))
    /\ UNCHANGED <<runvars, chk, pathvars, lab, wk>>

NextCaps ==
    \/ \E enabled \in BOOLEAN : Construct(enabled)
    \/ \E i \in 1..MaxCaps : StartCap(i)
    \/ \E i \in 1..MaxCaps : StopCap(i)
    \/ \E i \in 1..MaxCaps : ExitCap(i)

SpecCaps == InitCaps /\ [][NextCaps]_vars

(***************************************************************************)
(* doctest_example.py: the line of a failure.  None is NoLine here.        *)
(***************************************************************************)
\* self.lineno, the line of the file on which the docsrc begins
self_lineno == 1

failed_line_offset ==
    IF exc_info = NoExc THEN NoLine
    ELSE LET offset == _parts[failed_part + 1].line_offset IN
         IF exc_info.type = "GotWantException"
         THEN offset + _parts[failed_part + 1].n_exec_lines + 1 - 1
         ELSE offset + tb_lineno - 1

failed_lineno ==
    IF failed_line_offset = NoLine THEN NoLine
    ELSE self_lineno + failed_line_offset

(***************************************************************************)
(* Properties of DocTest.run.                                              *)
(***************************************************************************)
Events == 1..Len(trace)

\* run() has returned or raised
Finished == pc = "ready" /\ outcome # "none"

PartOf(e) == _parts[e.part + 1]

\* the part of event e holds the docsrc line with 0-based number l
Covers(e, l) ==
    /\ PartOf(e).line_offset <= l
    /\ l < PartOf(e).line_offset + PartOf(e).n_exec_lines

Names_(directives, inl) ==
    {directives[k].name : k \in {m \in 1..Len(directives) : directives[m].inline = inl}}

RECURSIVE LastBind(_, _)
\* the value the last assignment among lines 1..k gives x, or Unbound
LastBind(lines, k) ==
    IF k = 0 THEN Unbound
    ELSE IF lines[k].op = "bind1" THEN "1"
    ELSE IF lines[k].op = "bind2" THEN "2"
    ELSE LastBind(lines, k - 1)

RECURSIVE LastAssigned(_)
\* the value last assigned to x by the lines the events 1..n of this run
\* executed to completion, or Unbound
LastAssigned(n) ==
    IF n = 0 THEN Unbound
    ELSE LET e == trace[n]
             v == IF e.entered /\ e.unit # NoPart
                  THEN LastBind(_parts[e.unit + 1].exec_lines, e.done)
                  ELSE Unbound
         IN  IF v # Unbound THEN v ELSE LastAssigned(n - 1)

\* C1: a group whose SKIP option is true after its directives were folded in is
\* neither compiled nor executed (not even later, as a stale compiled unit),
\* is appended to skipped_parts, gets no entry in logged_stdout or
\* logged_evals, and no got/want comparison is made for it.
C1_SkippedGroupUntouched ==
    \A i \in Events :
        trace[i].skip =>
            /\ ~trace[i].compiled
            /\ ~trace[i].entered
            /\ ~trace[i].compared
            /\ trace[i].part \in Range(skipped_parts)
            /\ trace[i].part \notin DOMAIN logged_stdout
            /\ trace[i].part \notin DOMAIN logged_evals
            /\ \A j \in Events : trace[j].unit # trace[i].part

C1_Witness ==
    \E i, j \in Events :
        /\ trace[i].skip
        /\ PartOf(trace[i]).want # <<>>
        /\ trace[j].entered

\* C2: when run() has ended with every group skipped, the outcome given to
\* the caller is not a pass, in 'pytest' mode and in 'native' mode alike.
C2_AllSkippedIsNotAPass ==
    (Finished /\ _parts # <<>> /\ Len(skipped_parts) = Len(_parts)) =>
        \/ outcome = "skipped"
        \/ outcome = "returned" /\ ~summary.passed

\* C3: a statement whose directives are all single-line scoped is a group of
\* its own, and the statement after it (with no directive of its own) is in
\* a later group that sees, for every option, the value the option had before
\* the directive was applied; a statement with an inline +SKIP is skipped and
\* the statement after it is not.
C3_InlineDirectiveScoped ==
    \A l \in 1..(Len(docsrc) - 1) :
        LET a == docsrc[l]
            b == docsrc[l + 1]
        IN  ( /\ a.label = DSRC /\ b.label = DSRC
              /\ a.stmt.directives # <<>>
              /\ Names_(a.stmt.directives, FALSE) = {}
              /\ b.stmt.directives = <<>> /\ ~b.stmt.ps2 ) =>
            \A i, j \in Events :
                (Covers(trace[i], l - 1) /\ Covers(trace[j], l)) =>
                    /\ i # j
                    /\ trace[j].state = trace[i].base
                    /\ (Directive("SKIP", TRUE, TRUE) \in Range(a.stmt.directives)) =>
                            (trace[i].skip /\ ~trace[i].entered)
                    /\ ~trace[i].base["SKIP"] =>
                            /\ ~trace[j].skip
                            /\ trace[j].compiled
                            /\ trace[j].compile_ok =>
                                  (trace[j].entered /\ trace[j].unit = trace[j].part)

C3_Witness ==
    \E i, j \in Events :
        /\ j = i + 1
        /\ PartOf(trace[i]).directives = <<Directive("SKIP", TRUE, TRUE)>>
        /\ PartOf(trace[j]).directives = <<>>
        /\ PartOf(trace[j]).line_offset = PartOf(trace[i]).line_offset + 1
        /\ docsrc[PartOf(trace[j]).line_offset].label = DSRC
        /\ trace[i].skip
        /\ trace[j].entered
        /\ Finished /\ outcome = "returned" /\ summary.passed

\* the value the last block directive of a part gives option o
RECURSIVE LastBlockValue(_, _, _)
LastBlockValue(directives, o, k) ==
    IF k = 0 THEN FALSE
    ELSE IF directives[k].name = o /\ ~directives[k].inline
         THEN directives[k].positive
         ELSE LastBlockValue(directives, o, k - 1)

\* C4: once a block directive sets an option, every later group of the run
\* sees that value until a later directive overrides it; after a block +SKIP
\* that nothing overrides every following group is skipped, so that a run
\* that had not failed before it passes.
C4_BlockDirectivePersists ==
    \A i \in Events : \A o \in Options :
        LET di == PartOf(trace[i]).directives
            v == LastBlockValue(di, o, Len(di))
        IN  o \in Names_(di, FALSE) =>
            /\ \A j \in Events :
                  ( /\ i < j
                    /\ \A k \in (i + 1)..j :
                          o \notin Names_(PartOf(trace[k]).directives, FALSE)
                    /\ o \notin Names_(PartOf(trace[j]).directives, TRUE) ) =>
                      /\ trace[j].state[o] = v
                      /\ (o = "SKIP" /\ v) => (trace[j].skip /\ ~trace[j].entered)
            /\ ( /\ o = "SKIP" /\ v /\ Finished
                 /\ "SKIP" \notin Names_(di, TRUE)
                 /\ \A k \in (i + 1)..Len(_parts) :
                       "SKIP" \notin Names_(_parts[k].directives, TRUE)
                                     \cup Names_(_parts[k].directives, FALSE)
                 /\ \A k \in 1..(i - 1) :
                       trace[k].fail = None
                       /\ (trace[k].compiled => trace[k].compile_ok) ) =>
                  /\ \A k \in i..Len(_parts) : (k - 1) \in Range(skipped_parts)
                  /\ outcome # "raised"
                  /\ outcome = "returned" => summary.passed

C4_Witness ==
    \E i, j \in Events :
        /\ i < j
        /\ PartOf(trace[i]).directives = <<Directive("SKIP", TRUE, FALSE)>>
        /\ PartOf(trace[j]).directives = <<>>
        /\ trace[j].skip
        /\ Finished /\ outcome = "returned" /\ summary.passed

\* C5: with on_error = 'return' a got/want mismatch or an unexpected runtime
\* exception does not make run() raise: the exception is recorded in exc_info,
\* no later group is processed and the summary returned has passed = false.
C5_ReturnPolicyStopsAtFailure ==
    on_error = "return" =>
        /\ outcome # "raised"
        /\ \A i \in Events :
              trace[i].fail # None =>
                  /\ i = Len(trace)
                  /\ pc # "running"
                  /\ exc_info.part = trace[i].part
                  /\ exc_info.type = IF trace[i].fail = "gotwant"
                                     THEN "GotWantException" ELSE trace[i].exc
                  /\ Finished =>
                        /\ outcome = "returned"
                        /\ ~summary.passed
                        /\ summary.has_exc_info
                        /\ summary.exc_info = exc_info

C5_Witness ==
    /\ Finished /\ on_error = "return" /\ outcome = "returned"
    /\ trace # <<>>
    /\ Last(trace).fail = "gotwant"
    /\ Len(trace) < Len(_parts)

\* C6: a group whose source fails to compile is an immediate failure: no code
\* is executed for it (neither its own nor a previously compiled unit), no
\* later group is processed, and with on_error = 'return' the syntax error is
\* the exception recorded in exc_info when run() returns.
C6_CompileErrorIsImmediateFailure ==
    \A i \in Events :
        (trace[i].compiled /\ ~trace[i].compile_ok) =>
            /\ ~trace[i].entered
            /\ i = Len(trace)
            /\ pc # "running"
            /\ (Finished /\ on_error = "return") =>
                  (outcome = "returned" /\ exc_info.type = "SyntaxError")

\* C7: a name bound by an earlier executed group of the run is visible, with
\* the value last assigned, to every later group of that run.
C7_NamespaceShared ==
    /\ \A i \in Events :
          (trace[i].entered /\ LastAssigned(i - 1) # Unbound) =>
              trace[i].seen["x"] = LastAssigned(i - 1)
    /\ LastAssigned(Len(trace)) # Unbound => globs["x"] = LastAssigned(Len(trace))

C7_Witness ==
    \E i, j \in Events :
        /\ i < j
        /\ trace[i].entered /\ trace[i].unit = trace[i].part
        /\ LastAssigned(i) = "2"
        /\ trace[j].entered /\ trace[j].unit = trace[j].part
        /\ trace[j].out = <<"2", "\n">>

\* C8: a name bound during one call of run() is not visible to the groups of
\* a later call of run() on the same object: a group sees only the names of
\* the owning module and the names bound earlier in the same call.
C8_NamespaceResetPerRun ==
    \A i \in Events :
        (trace[i].entered /\ LastAssigned(i - 1) = Unbound) =>
            trace[i].seen = _test_globals(EmptyGlobals, module)

\* C9: before the first group of a call of run() is processed the runtime
\* state is the state built from the static defaults, and logged_evals,
\* logged_stdout, skipped_parts, the unmatched-stdout buffer and exc_info are
\* empty, whatever an earlier run left behind.
C9_FreshRecordAtRunStart ==
    (pc \in {"running", "post"} /\ trace = <<>>) =>
        /\ _runstate = RuntimeState
        /\ DOMAIN logged_evals = {}
        /\ DOMAIN logged_stdout = {}
        /\ skipped_parts = <<>>
        /\ _unmatched_stdout = <<>>
        /\ exc_info = NoExc

C9_Witness ==
    /\ pc = "running" /\ trace = <<>>
    /\ tb_lineno # NoLine
    /\ failed_part # NoPart
    /\ \E k \in 1..Len(_parts) : k - 1 < failed_part /\ _parts[k].directives # <<>>

\* C10: whenever run() has returned or raised, and between any two groups,
\* sys.stdout is the handle that was installed when run() was called and the
\* capture is not started.
C10_StdoutRestored ==
    /\ sys_stdout = stdout_at_call
    /\ ~cap.started

C10_Witness ==
    /\ Finished /\ outcome = "raised"
    /\ \E i \in Events : trace[i].entered /\ trace[i].exc # None /\ trace[i].out # <<>>

\* no event before the i-th recorded a failure of any kind
CleanBefore(i) ==
    \A k \in 1..(i - 1) :
        trace[k].fail = None /\ (trace[k].compiled => trace[k].compile_ok)

\* C11: a group that raises the cooperative early-exit signal, with or
\* without a want block, is the last group processed, is no failure, and a
\* run that had recorded no failure before it returns passed = true with
\* exc_info None.
C11_EarlyExitEndsRun ==
    \A i \in Events :
        (trace[i].entered /\ trace[i].exc = "ExitTestException") =>
            /\ i = Len(trace)
            /\ pc # "running"
            /\ trace[i].fail = None
            /\ (Finished /\ CleanBefore(i) /\ trace[i].compile_ok) =>
                  /\ outcome = "returned"
                  /\ summary.passed
                  /\ exc_info = NoExc

\* the want names the exception: it is the wildcard, or the formatted
\* exception message without its final newline
WantNames(exc, want) ==
    \/ want = ELLIPSIS_MARKER
    \/ want \o <<"\n">> = ExcText(exc)

C13_IgnoreWantNeverCompares ==
    \A i \in Events :
        (trace[i].entered /\ trace[i].state["IGNORE_WANT"]) =>
            /\ ~trace[i].compared
            /\ trace[i].fail # "gotwant"
            /\ trace[i].exc \notin {None, "ExitTestException"} =>
                  trace[i].fail = "error"

\* the events of groups compiled for eval, with a want, that ran to the end
\* and were checked
EvalChecked(e) ==
    /\ e.entered /\ e.compile_ok /\ e.unit = e.part
    /\ PartOf(e).use_eval
    /\ PartOf(e).want # <<>>
    /\ e.exc = None
    /\ ~e.state["IGNORE_WANT"]

\* the value of the one expression of such a group: print(x) is None
ExpectedValue(e) ==
    LET stmt == SelectSeq(PartOf(e).exec_lines, IsStatement)[1]
    IN  IF stmt.op = "expr" THEN e.seen["x"] ELSE None

\* C14 as stated: for a group whose final statement is a bare expression and
\* whose want is non-empty, only the printed representation of the value is
\* compared against the want, never the captured stdout.
C14_EvalComparesReprOnly ==
    \A i \in Events :
        EvalChecked(trace[i]) =>
            LET want == PartOf(trace[i]).want IN
            (trace[i].fail = None) <=>
                \/ want = ELLIPSIS_MARKER
                \/ want = Repr(ExpectedValue(trace[i]))

\* C14 amended: such a group is evaluated and both its captured stdout and
\* the printed representation of its value are eligible: the group passes
\* exactly when the want is the wildcard, names the stdout or names the
\* representation of the value; otherwise it is a got/want failure.
C14_EvalComparesReprOrStdout ==
    \A i \in Events :
        EvalChecked(trace[i]) =>
            LET want == PartOf(trace[i]).want IN
            /\ trace[i].compared
            /\ logged_evals[trace[i].part] = ExpectedValue(trace[i])
            /\ trace[i].fail \in {None, "gotwant"}
            /\ (trace[i].fail = None) <=>
                  \/ want = ELLIPSIS_MARKER
                  \/ want \o <<"\n">> = trace[i].out
                  \/ want = Repr(ExpectedValue(trace[i]))

\* `x` with the want 1 after x = 1: nothing was printed, the value matched
C14_Witness ==
    /\ Finished /\ outcome = "returned" /\ summary.passed
    /\ \E i \in Events :
          /\ EvalChecked(trace[i])
          /\ PartOf(trace[i]).want = <<"1">>
          /\ trace[i].out = <<>>
          /\ logged_evals[trace[i].part] = "1"

\* one text holds another as a run of consecutive characters
Holds(text, piece) ==
    \E k \in 0..(Len(text) - Len(piece)) :
        SubSeq(text, k + 1, k + Len(piece)) = piece

\* C15: check_output(got, want) is true when want is empty, when want is
\* exactly '...' and when got = want; otherwise it is true exactly when
\* normalize(got, want) yields two equal texts, so that an ellipsis inside a
\* longer want is no wildcard.
C15_CheckOutputCases ==
    chk.phase = "checked" =>
        /\ chk.want = <<>> => chk.result
        /\ chk.want = ELLIPSIS_MARKER => chk.result
        /\ chk.got = chk.want => chk.result
        /\ (chk.want \notin {<<>>, ELLIPSIS_MARKER} /\ chk.got # chk.want) =>
              (chk.result <=>
                  normalize(chk.got, chk.want)[1] = normalize(chk.got, chk.want)[2])
        /\ ( /\ chk.want # ELLIPSIS_MARKER
             /\ Holds(chk.want, ELLIPSIS_MARKER)
             /\ chk.got = <<"1", "1">> ) => ~chk.result

\* a want that holds an ellipsis and more was compared and did not match
C15_Witness ==
    /\ chk.phase = "checked"
    /\ chk.want = <<"1">> \o ELLIPSIS_MARKER
    /\ chk.got = <<"1", "1">>
    /\ ~chk.result

\* C16: normalize applied to the result of normalize(got, want) returns that
\* result unchanged.
C16_NormalizeIdempotent ==
    chk.phase = "renormalized" => chk.renorm = chk.norm

\* the statements of the source lines of a docsrc, in order
SourceStatements(src) ==
    LET lines == SelectSeq(src, LAMBDA l : l.label = DSRC)
    IN  [k \in 1..Len(lines) |-> lines[k].stmt]

\* C17: the groups produced by packaging partition the source lines: their
\* executable lines, concatenated in group order, are the source lines of
\* the text with none lost, duplicated or reordered; every group is a run of
\* consecutive source lines of one chunk and begins on a line that starts a
\* statement.
C17_GroupsPartitionChunk ==
    _parts # <<>> =>
        /\ Flatten([k \in 1..Len(_parts) |-> _parts[k].exec_lines])
              = SourceStatements(docsrc)
        /\ \A k \in 1..Len(_parts) :
              LET part == _parts[k] IN
              /\ part.n_exec_lines = Len(part.exec_lines)
              /\ part.n_exec_lines >= 1
              /\ part.line_offset + part.n_exec_lines <= Len(docsrc)
              /\ \A l \in 1..part.n_exec_lines :
                    docsrc[part.line_offset + l] = SrcLine(part.exec_lines[l])
              /\ ~part.exec_lines[1].ps2
              /\ k > 1 =>
                    _parts[k - 1].line_offset + _parts[k - 1].n_exec_lines
                        <= part.line_offset

\* one chunk of three source lines packaged as more than one group, one of
\* them of two lines
C17_Witness ==
    /\ Len(docsrc) = 3
    /\ \A l \in 1..3 : docsrc[l].label = DSRC
    /\ Len(_parts) = 2
    /\ \E k \in 1..2 : _parts[k].n_exec_lines = 2

\* a parsed text made only of prompt lines, each one top-level statement,
\* with no directive and no want line
PlainStatements ==
    /\ _parts # <<>>
    /\ \A l \in 1..Len(docsrc) :
          /\ docsrc[l].label = DSRC
          /\ docsrc[l].stmt.directives = <<>>
          /\ ~docsrc[l].stmt.ps2

\* C18 as stated: such a text of n statements is parsed into n groups, none
\* of which has a want.
C18_OneGroupPerStatement ==
    PlainStatements =>
        /\ Len(_parts) = Len(docsrc)
        /\ \A k \in 1..Len(_parts) : _parts[k].want = <<>>

\* C18 amended: such a text of n statements is parsed into one group that
\* holds the n statements in order, has no want and is not evaluated; a
\* statement that raises ends the group, so the statements after it never
\* execute.
C18_OneGroupPerChunk ==
    PlainStatements =>
        /\ Len(_parts) = 1
        /\ _parts[1].exec_lines = SourceStatements(docsrc)
        /\ _parts[1].line_offset = 0
        /\ _parts[1].want = <<>>
        /\ ~_parts[1].use_eval
        /\ \A i \in Events :
              (trace[i].entered /\ trace[i].exc # None /\ trace[i].compile_ok) =>
                  /\ trace[i].done < Len(docsrc)
                  /\ globs["x"] = LastBind(_parts[1].exec_lines, trace[i].done)
                        \/ LastBind(_parts[1].exec_lines, trace[i].done) = Unbound

\* three statements, the second raises AssertionError: one group, the run
\* failed with that error and the third statement never ran
C18_Witness ==
    /\ SourceStatements(docsrc) = <<Stmt("bind1", <<>>, FALSE),
                                    Stmt("raise", <<>>, FALSE),
                                    Stmt("bind2", <<>>, FALSE)>>
    /\ Len(docsrc) = 3
    /\ Finished /\ outcome = "returned"
    /\ ~summary.passed
    /\ exc_info = [type |-> "AssertionError", part |-> 0]
    /\ globs["x"] = "1"

\* C19: the parser is invoked by the first call of _parse only: every later
\* call leaves _parts as it is and does not parse again, also for a docsrc
\* that yields no groups.
C19_ParsedOnce ==
    /\ parse_calls <= 1
    /\ (parse_calls = 1 /\ pc # "ready") => _parts = parse(docsrc)

\* C20: when labelling, grouping or packaging cannot complete, run() ends
\* with the DoctestParseError of parse under both on_error policies: the
\* error carries the original text, the location info and the underlying
\* exception, no list of groups is kept and no group is processed.
C20_ParseErrorPropagates ==
    /\ (LabelFails(docsrc) \/ PackageFails(docsrc)) =>
          /\ _parts = <<>>
          /\ pc = "ready"
          /\ trace = <<>>
          /\ outcome \in {"none", "parse_error"}
    /\ outcome = "parse_error" =>
          /\ LabelFails(docsrc) \/ PackageFails(docsrc)
          /\ parse_exc.type = "DoctestParseError"
          /\ parse_exc.string = docsrc
          /\ parse_exc.info = Info
          /\ parse_exc.orig_ex = "SyntaxError"
          /\ exc_info = NoExc
    /\ outcome # "parse_error" => parse_exc = NoError

\* run(on_error='return') raised the parse error of a text whose first
\* statement is valid and whose later chunk is not valid syntax
C20_Witness ==
    /\ outcome = "parse_error"
    /\ on_error = "return"
    /\ Len(docsrc) = 3
    /\ docsrc[1] = SrcLine(Stmt("bind1", <<>>, FALSE))
    /\ docsrc[2] = TextLine
    /\ docsrc[3] = SrcLine(Stmt("invalid", <<>>, FALSE))
    /\ _parts = <<>>


\* C21: while import_module_from_path runs the import, the directory of the
\* module is the first entry of sys.path.
C21_DirectoryFirstWhileImporting ==
    imp.phase = "importing" =>
        /\ sys_path # <<>>
        /\ sys_path[1] = imp.self.dpath

\* C22: once a PythonPathContext block has been left, and once
\* import_module_from_path has returned or raised, sys.path is what it was
\* before the entry, also when one context object is entered again.
C22_PathRestored ==
    /\ last_exit.done => last_exit.after = last_exit.before
    /\ imp.phase \in {"returned", "raised"} => imp.after = imp.before

\* C23: once run() has returned or raised, every group that got past the
\* SKIP decision has an entry in logged_stdout and in logged_evals, whichever
\* way the group ended, and its logged value is NOT_EVALED unless the group
\* was evaluated as an expression.
C23_ProcessedGroupLogged ==
    Finished =>
        \A i \in Events :
            ~trace[i].skip =>
                /\ trace[i].part \in DOMAIN logged_stdout
                /\ trace[i].part \in DOMAIN logged_evals
                /\ ~PartOf(trace[i]).use_eval =>
                      logged_evals[trace[i].part] = NOT_EVALED

\* C24: output_difference gives the unified-diff report (2 lines of context)
\* exactly when want and got both have more than two lines, and the simple
\* Expected/Got block otherwise.
C24_DiffExactlyWhenOverTwoLines ==
    chk.phase = "reported" =>
        /\ chk.report.kind = "Differences" <=>
              /\ Len(splitlines(chk.want, <<>>)) > 2
              /\ Len(splitlines(chk.got, <<>>)) > 2
        /\ chk.report.kind = "Differences" => chk.report.context = 2
        /\ chk.report.kind # "Differences" =>
              chk.report.kind \in {"Expected/Got", "Expected/Got nothing"}

\* the steps the labeller has taken
Steps == 1..Len(lab.steps)

\* the line a step of the labeller started on
StepLine(k) == lab.lines[lab.steps[k].idx]

\* C25: in the label stream every WANT line comes directly after a SOURCE or
\* a WANT line, and the grouping of the stream never meets a want with no
\* pending source: its 'impossible' assertion does not fire.
C25_WantFollowsSourceOrWant ==
    /\ \A i \in 1..Len(lab.labeled_lines) :
          lab.labeled_lines[i].label = WANT =>
              /\ i > 1
              /\ lab.labeled_lines[i - 1].label \in {DSRC, WANT}
    /\ lab.phase = "grouped" =>
          \A k \in 1..Len(lab.grouped) : lab.grouped[k].kind # "AssertionError"

C25_Witness ==
    /\ lab.phase = "grouped"
    /\ \E i, j \in 1..Len(lab.grouped) :
          /\ i < j
          /\ lab.grouped[i].kind = "chunk" /\ Len(lab.grouped[i].wlines) = 2
          /\ lab.grouped[j].kind = "chunk" /\ lab.grouped[j].wlines = <<>>

\* C26 as stated: in WANT state a blank line or a line indented less than
\* the source block gives TEXT, any other line with a prompt marker gives
\* SOURCE, every other line stays WANT.
C26_WantLessIndentedIsText ==
    \A k \in Steps :
        lab.steps[k].prev = WANT =>
            LET line == StepLine(k)
                e == lab.steps[k]
                totext == strip(line) = <<>>
                          \/ line_indent(line) < e.indent_before
            IN  /\ totext => e.curr = TEXT
                /\ (~totext /\ hasprefix(strip(line), {">>>"})) => e.curr = DSRC
                /\ (~totext /\ ~hasprefix(strip(line), {">>>"})) => e.curr = WANT

\* C26: in WANT state a blank line gives TEXT; a non-blank line that starts,
\* at any indentation, with the prompt marker gives SOURCE; a line without
\* the marker that is indented less than the source block gives TEXT; every
\* other line stays WANT.  Entering SOURCE sets the block indentation to the
\* indentation of that line, entering TEXT sets it to 0.
C26_WantTransitions ==
    \A k \in Steps :
        lab.steps[k].prev = WANT =>
            LET line == StepLine(k)
                e == lab.steps[k]
                blank == strip(line) = <<>>
                prompt == hasprefix(strip(line), {">>>"})
                less == line_indent(line) < e.indent_before
            IN  /\ blank => e.curr = TEXT
                /\ (~blank /\ prompt) => e.curr = DSRC
                /\ (~blank /\ ~prompt /\ less) => e.curr = TEXT
                /\ (~blank /\ ~prompt /\ ~less) => e.curr = WANT
                /\ e.curr = DSRC => e.indent = line_indent(line)
                /\ e.curr = TEXT => e.indent = 0
                /\ e.curr = WANT => e.indent = e.indent_before

C26_Witness ==
    \E k \in Steps :
        /\ lab.steps[k].prev = WANT
        /\ lab.steps[k].curr = DSRC
        /\ line_indent(StepLine(k)) < lab.steps[k].indent_before
        /\ lab.steps[k].indent = 0
        /\ lab.phase = "returned"

RECURSIVE SourceText(_, _, _)
\* what the lines i..j say after their first four columns at indentation n
SourceText(i, j, n) ==
    IF j < i THEN <<>>
    ELSE LET norm == norm_line(lab.lines[j], n)
         IN  SourceText(i, j - 1, n) \o (IF norm = <<>> THEN <<>> ELSE Tail(norm))

\* a statement takes the lines up to the first that balances it, and all of
\* them are labelled SOURCE
TakesUnbalancedLines(k) ==
    LET e == lab.steps[k] IN
    e.curr = DSRC =>
        /\ \A j \in e.idx..e.last : lab.labeled_lines[j].label = DSRC
        /\ \A j \in e.idx..(e.last - 1) :
              ~is_balanced_statement(SourceText(e.idx, j, e.indent))
        /\ is_balanced_statement(SourceText(e.idx, e.last, e.indent))

\* C27 as stated: the line after a balanced statement is a WANT line only if
\* it carries no prompt marker, is not blank and is not indented less than
\* the source block.
C27_WantOnlyWithoutPrompt ==
    \A k \in Steps :
        /\ TakesUnbalancedLines(k)
        /\ (lab.steps[k].prev = DSRC /\ lab.steps[k].curr = WANT) =>
              /\ ~hasprefix(strip(StepLine(k)), {">>>", "..."})
              /\ strip(StepLine(k)) # <<>>
              /\ line_indent(StepLine(k)) >= lab.steps[k].indent_before

\* C27: the lines after the start of a statement are labelled SOURCE as long
\* as the accumulated statement is unbalanced, with or without a
\* continuation marker and also when blank; the line after the balanced
\* statement is a WANT line exactly when it is not blank, not indented less
\* than the source block, and either is the bare marker '...' or does not
\* start with a prompt marker at the indentation of the block.
C27_SourceUntilBalanced ==
    \A k \in Steps :
        /\ TakesUnbalancedLines(k)
        /\ lab.steps[k].prev = DSRC =>
              (lab.steps[k].curr = WANT <=>
                  /\ strip(StepLine(k)) # <<>>
                  /\ line_indent(StepLine(k)) >= lab.steps[k].indent_before
                  /\ \/ strip(StepLine(k)) = <<"...">>
                     \/ ~hasprefix(norm_line(StepLine(k),
                                             lab.steps[k].indent_before),
                                   {">>>", "..."}))

C27_Witness ==
    /\ lab.phase = "returned"
    /\ \E k \in Steps :
          /\ k + 1 \in Steps
          /\ lab.steps[k].curr = DSRC
          /\ lab.steps[k].last = lab.steps[k].idx + 2
          /\ lab.lines[lab.steps[k].idx + 1] = <<>>
          /\ lab.lines[lab.steps[k].idx + 2] = <<"    ", ")">>
          /\ lab.steps[k + 1].curr = WANT

\* the number of the docsrc line after the last line of a part
LineAfter(part) == part.line_offset + part.n_exec_lines + 1

\* the part is the last one of its chunk: no source line follows it
LastOfChunk(part) ==
    LineAfter(part) > Len(docsrc) \/ docsrc[LineAfter(part)].label # DSRC

\* the part is the first one of its chunk: no source line precedes it
FirstOfChunk(part) ==
    part.line_offset = 0 \/ docsrc[part.line_offset].label # DSRC

RECURSIVE WantRun(_)
\* the want lines of docsrc from line l on
WantRun(l) ==
    IF l > Len(docsrc) \/ docsrc[l].label # WANT THEN <<>>
    ELSE <<docsrc[l]>> \o WantRun(l + 1)

\* C28: of the groups of one chunk only the last carries the want lines of
\* the chunk; every earlier group has no want and use_eval false, and the
\* last has use_eval true exactly when the chunk has want lines and its
\* final statement is a bare expression.
C28_OnlyLastGroupHasWant ==
    \A k \in 1..Len(_parts) :
        LET part == _parts[k]
            want_lines == WantRun(LineAfter(part))
        IN  /\ ~LastOfChunk(part) => (part.want = <<>> /\ ~part.use_eval)
            /\ LastOfChunk(part) =>
                  /\ part.want = JoinLines(want_lines)
                  /\ part.use_eval <=>
                        (want_lines # <<>> /\ IsExpr(Last(part.exec_lines)))

C28_Witness ==
    \E j, k \in 1..Len(_parts) :
        /\ k = j + 1
        /\ ~LastOfChunk(_parts[j])
        /\ LastOfChunk(_parts[k])
        /\ _parts[k].want # <<>> /\ _parts[k].use_eval

\* C29: a group with use_eval true holds exactly one top-level statement,
\* the final bare expression of its chunk, and compiles in 'eval' mode, also
\* when that expression stands on a line with a continuation prompt.
C29_EvalGroupIsOneExpression ==
    \A k \in 1..Len(_parts) :
        _parts[k].use_eval =>
            LET stmts == SelectSeq(_parts[k].exec_lines, IsStatement)
            IN  /\ Len(stmts) = 1
                /\ IsExpr(stmts[1])
                /\ LastOfChunk(_parts[k])
                /\ stmts[1].op # "bad" => Compile(_parts[k], k - 1).ok

\* C30: no group begins on a line whose prompt marks a continuation, unless
\* it is the first group of its chunk, and no such line is among the
\* statement starts that _locate_ps1_linenos returns for a chunk (looked at
\* when the text has just been parsed).
C30_NoGroupStartsOnContinuation ==
    /\ \A k \in 1..Len(_parts) :
          ~FirstOfChunk(_parts[k]) => ~_parts[k].exec_lines[1].ps2
    /\ (_parts # <<>> /\ trace = <<>>) =>
          \A c \in Range(_group_labeled_lines(docsrc)) :
              c.kind = "chunk" =>
                  \A l \in Range(_locate_ps1_linenos(c.slines).ps1_linenos) :
                      ~c.slines[l + 1].stmt.ps2

C30_Witness ==
    \E j, k \in 1..Len(_parts) :
        /\ k = j + 1
        /\ ~LastOfChunk(_parts[j])
        /\ _parts[k].n_exec_lines = 2
        /\ _parts[k].exec_lines[2].ps2

\* the source line l of docsrc starts a statement (its prompt is '>>> ')
StartsStatement(l) == docsrc[l].label = DSRC /\ ~docsrc[l].stmt.ps2

RECURSIVE StatementLines(_)
\* the lines with a continuation prompt that follow line l
StatementLines(l) ==
    IF l + 1 <= Len(docsrc) /\ docsrc[l + 1].label = DSRC
       /\ docsrc[l + 1].stmt.ps2
    THEN <<docsrc[l + 1].stmt>> \o StatementLines(l + 1)
    ELSE <<>>

\* C31: every statement-start line that carries a directive starts a group
\* of its own, whose directives are the directives of that statement; no
\* such line lies inside a group; when the first directive is single-line
\* scoped the group ends with that statement.
C31_DirectiveStartsGroup ==
    _parts # <<>> =>
        /\ \A l \in 1..Len(docsrc) :
              (StartsStatement(l) /\ docsrc[l].stmt.directives # <<>>) =>
                  \E k \in 1..Len(_parts) :
                      /\ _parts[k].line_offset = l - 1
                      /\ _parts[k].directives =
                            extract(<<docsrc[l].stmt>> \o StatementLines(l))
                      /\ docsrc[l].stmt.directives[1].inline =>
                            _parts[k].exec_lines =
                                <<docsrc[l].stmt>> \o StatementLines(l)
        /\ \A k \in 1..Len(_parts) :
              /\ \A j \in 2..Len(_parts[k].exec_lines) :
                    ~_parts[k].exec_lines[j].ps2 =>
                        _parts[k].exec_lines[j].directives = <<>>
              /\ _parts[k].exec_lines[1].directives = <<>> =>
                    _parts[k].directives = <<>>

C31_Witness ==
    /\ Len(_parts) = 3
    /\ Len(docsrc) = 3
    /\ _parts[1].directives = <<>>
    /\ _parts[2].directives = <<Directive("IGNORE_WANT", TRUE, TRUE)>>
    /\ _parts[3].directives = <<>>
    /\ _parts[3].line_offset = 2

\* the index in docsrc of its n-th source line
IndexOfSource(n) ==
    CHOOSE i \in 1..Len(docsrc) :
        /\ docsrc[i].label = DSRC
        /\ Cardinality({j \in 1..i : docsrc[j].label = DSRC}) = n

RECURSIVE ExecLinesBefore(_)
\* how many executable lines the groups before the k-th hold
ExecLinesBefore(k) ==
    IF k <= 1 THEN 0
    ELSE ExecLinesBefore(k - 1) + _parts[k - 1].n_exec_lines

\* C32: the line offset of every group is the zero-based index, in the
\* text, of the group's first source line, text and want lines before it
\* counted; the offsets strictly increase from group to group.
C32_LineOffsetIsIndexOfFirstLine ==
    _parts # <<>> =>
        \A k \in 1..Len(_parts) :
            /\ _parts[k].line_offset
                  = IndexOfSource(ExecLinesBefore(k) + 1) - 1
            /\ k > 1 => _parts[k - 1].line_offset < _parts[k].line_offset

\* a chunk with a want line followed by a second chunk
C32_Witness ==
    /\ Len(docsrc) = 3
    /\ docsrc[2].label = WANT
    /\ docsrc[3].label = DSRC
    /\ Len(_parts) = 2
    /\ _parts[1].line_offset = 0
    /\ _parts[2].line_offset = 2

\* the pass of the for loop that handled the k-th statement of the chunk
StepOf(k) == wk.steps[Len(wk.ps1_linenos) + 1 - k]

\* C33: the starts returned by the backward correction are the lines on
\* which the statements really begin, also for a statement reported on the
\* line where its multi-line literal ends; with the statements handled
\* from last to first and b the end of the statement, each returned start
\* is the greatest line a, not above the reported one, for which
\* lines[a:b] is balanced.
C33_BackwardCorrection ==
    wk.phase = "returned" =>
        /\ Range(wk.new_ps1_lines) = Range(wk.starts)
        /\ Len(wk.steps) = Len(wk.ps1_linenos)
        /\ \A k \in 1..Len(wk.ps1_linenos) :
              /\ StepOf(k).b = IF k = Len(wk.ps1_linenos) THEN Len(wk.lines)
                               ELSE StepOf(k + 1).a
              /\ StepOf(k).a <= wk.ps1_linenos[k]
              /\ is_balanced_statement(
                    Flatten(Slice(wk.lines, StepOf(k).a, StepOf(k).b)))
              /\ \A a \in (StepOf(k).a + 1)..wk.ps1_linenos[k] :
                    ~is_balanced_statement(
                        Flatten(Slice(wk.lines, a, StepOf(k).b)))
              /\ wk.ps1_linenos[k] # wk.starts[k] =>
                    StepOf(k).a = wk.starts[k]

\* Scenario D: a literal on the second to fourth line, reported on the
\* fourth, followed by a statement on the fifth
C33_Witness ==
    /\ wk.phase = "returned"
    /\ Len(wk.lines) = 5
    /\ wk.ps1_linenos = <<0, 3, 4>>
    /\ wk.new_ps1_lines = <<4, 1, 0>>

EnteredEvents == SelectSeq(trace, LAMBDA e : e.entered)

\* C34: one capture object serves every group of a run; the text logged
\* for a group is what was written to stdout while that group executed,
\* with nothing of an earlier group, and the texts logged by the successive
\* log_part calls, concatenated in order, are the whole capture buffer.
C34_LoggedTextIsGroupOutput ==
    pc # "ready" \/ Finished =>
        /\ Len(cap.parts) = Len(EnteredEvents)
        /\ \A i \in 1..Len(EnteredEvents) :
              /\ cap.parts[i] = EnteredEvents[i].out
              /\ EnteredEvents[i].part \in DOMAIN logged_stdout
              /\ logged_stdout[EnteredEvents[i].part] = EnteredEvents[i].out
        /\ Flatten(cap.parts) = cap.buffer
        /\ cap.pos = Len(cap.buffer)

\* two groups of one run each wrote something
C34_Witness ==
    /\ Finished
    /\ Len(EnteredEvents) = 2
    /\ EnteredEvents[1].out # <<>>
    /\ EnteredEvents[2].out # <<>>
    /\ logged_stdout[EnteredEvents[2].part] = EnteredEvents[2].out

\* the pass through the loop that recorded the failure kept in exc_info
FailingEvent == trace[Len(trace)]

\* C35: after a failed run failed_lineno() is the base line of the example
\* plus the line offset of the failing group plus, for a got/want failure,
\* the number of its executable lines, or, for any other exception, the
\* position within the group of the line the interpreter reports for its
\* compiled unit (so the result names a line of the failing group, and for
\* an exception raised by a statement, the line of that statement);
\* failed_line_offset() and failed_lineno() are None exactly when no
\* failure was recorded.
C35_FailedLinenoNamesFailingLine ==
    (Finished /\ outcome # "parse_error") =>
        /\ (exc_info = NoExc) <=> (failed_lineno = NoLine)
        /\ (exc_info = NoExc) <=> (failed_line_offset = NoLine)
        /\ exc_info # NoExc =>
              LET part == _parts[exc_info.part + 1] IN
              /\ failed_part = exc_info.part
              /\ exc_info.type = "GotWantException" =>
                    failed_lineno = self_lineno + part.line_offset
                                        + part.n_exec_lines
              /\ exc_info.type # "GotWantException" =>
                    /\ failed_lineno >= self_lineno + part.line_offset
                    /\ failed_lineno < self_lineno + part.line_offset
                                           + part.n_exec_lines
                    /\ (FailingEvent.compile_ok /\ FailingEvent.fail = "error")
                          => failed_lineno = self_lineno + part.line_offset
                                                 + FailingEvent.done

\* C36: every line whose stripped text is '>>>' or begins with '>>> ' is
\* labelled SOURCE, whatever the state of the labeller and the indentation
\* of the line; no prompt line is labelled TEXT or WANT.
C36_PromptLineIsSource ==
    \A i \in 1..Len(lab.labeled_lines) :
        hasprefix(strip(lab.labeled_lines[i].line), {">>>"}) =>
            lab.labeled_lines[i].label = DSRC

\* the lines of the chunks and text segments of a grouping, in order
GroupedLines(grouped) ==
    Flatten([g \in 1..Len(grouped) |->
                grouped[g].slines \o grouped[g].wlines])

\* C37: labelling keeps every line once and in order: the labelled lines
\* are the input lines up to the line reached, also when a statement took
\* following lines to become balanced, and they are all the input lines
\* when the labeller returns; the chunks and text segments of the grouping
\* together hold each labelled line once, in order.
C37_EveryLineOnceInOrder ==
    /\ lab.phase \in {"labelling", "returned", "grouped"} =>
          /\ Len(lab.labeled_lines) = lab.pos
          /\ \A i \in 1..lab.pos :
                lab.labeled_lines[i].line = lab.lines[i]
    /\ lab.phase \in {"returned", "grouped"} => lab.pos = Len(lab.lines)
    /\ lab.phase = "grouped" =>
          /\ \A g \in 1..Len(lab.grouped) :
                lab.grouped[g].kind \in {"chunk", "text"}
          /\ GroupedLines(lab.grouped) = lab.labeled_lines

\* a statement took the following line, and text, source and want were
\* grouped
C37_Witness ==
    /\ lab.phase = "grouped"
    /\ \E k \in 1..Len(lab.steps) : lab.steps[k].last > lab.steps[k].idx
    /\ \E g \in 1..Len(lab.grouped) : lab.grouped[g].kind = "text"
    /\ \E g \in 1..Len(lab.grouped) : lab.grouped[g].wlines # <<>>

\* C38: when run() returns, summary['passed'] is true exactly when exc_info
\* is None, the key 'exc_info' is in the summary exactly when passed is
\* false, failed_part is None exactly when passed is true, and when passed
\* is false failed_part is the group whose compilation or execution raised
\* the exception kept in exc_info.
C38_SummaryAgreesWithFailure ==
    (pc = "ready" /\ outcome = "returned") =>
        /\ summary.passed <=> (exc_info = NoExc)
        /\ summary.has_exc_info <=> ~summary.passed
        /\ (failed_part = NoPart) <=> summary.passed
        /\ ~summary.passed =>
              /\ summary.exc_info = exc_info
              /\ failed_part = exc_info.part

\* the last start of object i before the j-th call, 0 when there is none
LastStart(i, j) ==
    LET S == {s \in 1..(j - 1) :
                 caps.log[s].op = "start" /\ caps.log[s].obj = i}
    IN  IF S = {} THEN 0 ELSE CHOOSE s \in S : \A t \in S : t <= s

\* C39: for any sequence of constructions, starts and stops of
\* CaptureStdout objects, stopping or exiting a capture makes sys.stdout
\* the handle that was installed immediately before that capture was
\* started (the start of a capture that was not the installed handle
\* already); a capture constructed with enabled=False never changes
\* sys.stdout and its text stays None.
C39_StopRestoresHandleBeforeStart ==
    \A j \in 1..Len(caps.log) :
        LET e == caps.log[j] IN
        /\ (e.op \in {"stop", "exit"} /\ caps.objs[e.obj].enabled
                /\ LastStart(e.obj, j) # 0
                /\ caps.log[LastStart(e.obj, j)].before
                       # caps.objs[e.obj].cap_stdout) =>
              e.after = caps.log[LastStart(e.obj, j)].before
        /\ ~caps.objs[e.obj].enabled =>
              /\ e.after = e.before
              /\ caps.objs[e.obj].text_is_none

=============================================================================
